---- MODULE Spec2Model ----
(***************************************************************************)
(* Access-control and metering core of backend/main.py: the global rate    *)
(* limiter, the access-password store, the usage ledger and the request    *)
(* handlers that consume them.                                             *)
(*                                                                         *)
(* Strings are sequences of one-character strings so that str.lower() and  *)
(* the f-string that builds a usage key are computed, not assumed.  Time   *)
(* is the integer number of seconds since the process started.             *)
(***************************************************************************)
EXTENDS Integers, Sequences, FiniteSets, TLC

(***************************************************************************)
(* Bounds of the model.                                                    *)
(***************************************************************************)
\* Ceiling of the rate limiter.  main.py:31 sets 400; the limiter's code is
\* parametric in it and the model runs it with a small ceiling.
GEMINI_RPM_LIMIT == 2
\* Number of concurrent callers of check_rate_limit in SpecRL.
MaxCallers == 2
\* The clock of SpecRL stops advancing past this many seconds.
MaxNowRL == 125

\* SpecStore: the clock stops advancing after this many hours.
MaxHours == 2
\* increment_usage is not called on a counter that has reached this value.
MaxCount == 3
\* The clock of SpecReq stops advancing past this many seconds.
MaxNowReq == 61
\* Number of requests SpecConc handles concurrently.
MaxProcs == 2
\* Documents the model lets moderation_failures_collection hold.
MaxFailures == 1
\* Documents in token_usage_collection: in SpecCost, where track_token_usage
\* is called with every input, and in SpecReport and SpecLedger.
MaxCalls == 1
MaxLedger == 3

\* Length of the limiter's window in seconds (main.py:203).
WINDOW == 60

\* Steps by which the clock of SpecRL advances: two of them make a timestamp
\* exactly WINDOW, WINDOW + 1 or WINDOW + 2 seconds old.
TickStepsRL == {30, 31}

Callers == 1..MaxCallers
NoCaller == 0

VARIABLES
    now,                 \* datetime.utcnow(), in seconds
    request_timestamps,  \* the deque of admitted timestamps
    rate_limit_lock,     \* holder of rate_limit_lock, NoCaller when free
    rl,                  \* per caller: position and locals inside check_rate_limit
    admitted,            \* history: every timestamp ever appended by check_rate_limit
    last_release,        \* history: the last completed call freed exactly one slot and took it
    passwords,           \* passwords_collection: a set of documents, one per stored code
    usage_tracking,      \* usage_tracking_collection: per usage_key, its documents in
                         \* insertion order (every query of the program is by key or
                         \* filters document by document)
    pending,             \* SpecStore: the consuming operation that passed validation, if any
    pairs,               \* history: completed validate+increment pairs per user, stored
                         \* code and category since the code was last deleted
    req,                 \* SpecReq: the request being handled, its position and locals
    images,              \* images_collection: its documents, told apart by what the
                         \* handlers read of them (whether the description is empty)
    conc,                \* SpecConc: per process, its position and locals inside a
                         \* consuming request (validate_password, then increment_usage)
    incs,                \* SpecConc history: completed increment_usage calls per category
    prev,                \* SpecOutcome history: kind, cause and response of an earlier
                         \* request that ended in one of the error outcomes
    probe,               \* the last answer of POST /api/password/validate: the code
                         \* sent, the time of the call and the response body
    moderation_failures, \* moderation_failures_collection: its documents in
                         \* insertion order
    moderation_guidelines, \* moderation_guidelines_collection: the document with
                         \* _id "current", NoDoc when there is none
    token_usage,         \* token_usage_collection: its documents in insertion order
    report               \* what the last GET /api/admin/token-usage computed by
                         \* model, NoDoc before the first call

limiterVars == <<request_timestamps, rate_limit_lock, rl, admitted, last_release>>
storeVars == <<passwords, usage_tracking>>
clientVars == <<pending, pairs>>
reqVars == <<req, images, prev>>
concVars == <<conc, incs>>
probeVars == <<probe>>
moderationVars == <<moderation_failures, moderation_guidelines>>
ledgerVars == <<token_usage, report>>
otherVars == <<storeVars, clientVars, reqVars, concVars, probeVars, moderationVars,
               ledgerVars>>
vars == <<now, limiterVars, otherVars>>

(***************************************************************************)
(* check_rate_limit (main.py:199-215)                                      *)
(***************************************************************************)
\* Number of entries of ts that are at most WINDOW seconds older than t.
InWindow(ts, t) == Cardinality({i \in 1..Len(ts) : ts[i] >= t - WINDOW})

\* `while request_timestamps and request_timestamps[0] < one_minute_ago` holds.
MustEvictNoGuard(ts, one_minute_ago) == ts # <<>> /\ Head(ts) <= one_minute_ago
MustEvict(ts, one_minute_ago) == ts # <<>> /\ Head(ts) < one_minute_ago

\* `len(request_timestamps) >= GEMINI_RPM_LIMIT`
AtLimitOffByOne(ts) == Len(ts) > GEMINI_RPM_LIMIT
AtLimit(ts) == Len(ts) >= GEMINI_RPM_LIMIT

\* `async with rate_limit_lock` may be entered.
LockFreeNoLock(holder) == TRUE
LockFree(holder) == holder = NoCaller

RlIdle == [pc |-> "idle", current_time |-> 0, one_minute_ago |-> 0,
           pre |-> <<>>, post |-> <<>>, result |-> FALSE, after_release |-> FALSE]

\* The call found a full deque of which exactly the oldest entry had aged out.
OnlyOldestAged(pre, t) ==
    /\ Len(pre) = GEMINI_RPM_LIMIT
    /\ pre[1] < t - WINDOW
    /\ InWindow(pre, t) = GEMINI_RPM_LIMIT - 1

\* A caller invokes check_rate_limit and waits for the lock (line 201).
rl_call(p) ==
    /\ rl[p].pc \in {"idle", "returned"}
    /\ rl' = [rl EXCEPT ![p] = [RlIdle EXCEPT !.pc = "acquire"]]
    /\ UNCHANGED <<now, request_timestamps, rate_limit_lock, admitted, last_release,
                   otherVars>>

\* Enter the locked section and read the clock (lines 201-203).
rl_acquire(p) ==
    /\ rl[p].pc = "acquire"
    /\ LockFree(rate_limit_lock)
    /\ rate_limit_lock' = p
    /\ rl' = [rl EXCEPT ![p] = [pc |-> "evict", current_time |-> now,
                                one_minute_ago |-> now - WINDOW,
                                pre |-> request_timestamps, post |-> <<>>,
                                result |-> FALSE, after_release |-> last_release]]
    /\ UNCHANGED <<now, request_timestamps, admitted, last_release, otherVars>>

\* One turn of the eviction loop (lines 206-207).
rl_evict(p) ==
    /\ rl[p].pc = "evict"
    /\ IF MustEvict(request_timestamps, rl[p].one_minute_ago)
         THEN /\ request_timestamps' = Tail(request_timestamps)
              /\ UNCHANGED rl
         ELSE /\ rl' = [rl EXCEPT ![p].pc = "check"]
              /\ UNCHANGED request_timestamps
    /\ UNCHANGED <<now, rate_limit_lock, admitted, last_release, otherVars>>

\* The ceiling test (lines 210-211): return False and leave the section.
rl_check(p) ==
    /\ rl[p].pc = "check"
    /\ IF AtLimit(request_timestamps)
         THEN /\ rl' = [rl EXCEPT ![p].pc = "returned", ![p].result = FALSE,
                                  ![p].post = request_timestamps]
              /\ rate_limit_lock' = NoCaller
              /\ last_release' = FALSE
         ELSE /\ rl' = [rl EXCEPT ![p].pc = "append"]
              /\ UNCHANGED <<rate_limit_lock, last_release>>
    /\ UNCHANGED <<now, request_timestamps, admitted, otherVars>>

\* Record the call and return True (lines 214-215).
rl_append(p) ==
    /\ rl[p].pc = "append"
    /\ request_timestamps' = Append(request_timestamps, rl[p].current_time)
    /\ admitted' = Append(admitted, rl[p].current_time)
    /\ rl' = [rl EXCEPT ![p].pc = "returned", ![p].result = TRUE,
                        ![p].post = request_timestamps']
    /\ rate_limit_lock' = NoCaller
    /\ last_release' = OnlyOldestAged(rl[p].pre, rl[p].current_time)
    /\ UNCHANGED <<now, otherVars>>

\* The wall clock advances by d seconds, up to the bound of the specification.
Tick(d, limit) ==
    /\ now + d <= limit
    /\ now' = now + d
    /\ UNCHANGED <<limiterVars, otherVars>>

(***************************************************************************)
(* Strings                                                                 *)
(***************************************************************************)
\* str.lower() on one character, for the letters the model's inputs use.
LowerChar(c) ==
    CASE c = "A" -> "a"
      [] c = "B" -> "b"
      [] c = "D" -> "d"
      [] c = "I" -> "i"
      [] c = "M" -> "m"
      [] c = "N" -> "n"
      [] OTHER -> c

\* str.lower()
lower(s) == [i \in 1..Len(s) |-> LowerChar(s[i])]

\* ADMIN_PASSWORD, the default of line 49: "admin123".
ADMIN_PASSWORD == <<"a", "d", "m", "i", "n", "1", "2", "3">>

\* Codes a client or the administrator may send: two spellings of an ordinary
\* code, the operator secret, and the operator secret in upper case.
PW_ab == <<"a", "b">>
PW_AB == <<"A", "B">>
PW_ADMIN_UPPER == <<"A", "D", "M", "I", "N", "1", "2", "3">>
PasswordInputs == {PW_ab, PW_AB, ADMIN_PASSWORD, PW_ADMIN_UPPER}
\* A code that lowercases to "admin", the inputs of SpecLedger.
PW_Admin == <<"A", "d", "m", "i", "n">>

\* user_guid values (uuid4 strings in the program).
USER_u == <<"u">>
USER_v == <<"v">>
Users == {USER_u, USER_v}

UsageTypes == {"image", "suggestion"}

\* timedelta(hours=1) in seconds (main.py:1156, 1255).
HOUR == 3600

\* Python's None for a document that was not found.
NoDoc == [none |-> TRUE]

(***************************************************************************)
(* validate_password (main.py:223-269)                                     *)
(***************************************************************************)
\* `password == ADMIN_PASSWORD` (lines 230, 273, 1519): exact comparison.
is_admin_ignoring_case(password) == lower(password) = lower(ADMIN_PASSWORD)
is_admin(password) == password = ADMIN_PASSWORD

\* passwords_collection.find_one({"password": password_lower}) (line 1238) and
\* the match of delete_one (line 1218).
find_one_password(pwds, password_lower) ==
    LET hits == {d \in pwds : d.password = password_lower}
    IN IF hits = {} THEN NoDoc ELSE CHOOSE d \in hits : TRUE

\* passwords_collection.find_one({"password": ..., "expires_at": {"$gt": now}})
\* (lines 235-238, 1528-1531).
find_password_ignoring_expiry(pwds, password_lower, t) ==
    LET hits == {d \in pwds : d.password = password_lower}
    IN IF hits = {} THEN NoDoc ELSE CHOOSE d \in hits : TRUE
find_password(pwds, password_lower, t) ==
    LET hits == {d \in pwds : d.password = password_lower /\ d.expires_at > t}
    IN IF hits = {} THEN NoDoc ELSE CHOOSE d \in hits : TRUE

\* f"{user_guid}:{password}"
usage_key(user_guid, password) == user_guid \o <<":">> \o password

\* The key increment_usage updates (lines 276-277): the lowercased password.
increment_usage_key(user_guid, password) == usage_key(user_guid, lower(password))

\* The key validate_password looks up and creates (line 246): the password as
\* the client spelled it.
validate_usage_key(user_guid, password) == usage_key(user_guid, password)

\* Every usage_key the model's inputs can build.
UsageKeys ==
    {usage_key(u, p) : u \in Users, p \in PasswordInputs \cup {PW_Admin, lower(PW_Admin)}}

\* usage_tracking_collection.find_one({"usage_key": key}): the first document
\* stored under the key, NoDoc when there is none.
find_usage(ut, key) == IF ut[key] = <<>> THEN NoDoc ELSE Head(ut[key])

\* The tracking document of lines 251-258 (created_at is not modelled).
new_usage_doc(user_guid, password) ==
    [usage_key |-> validate_usage_key(user_guid, password),
     user_guid |-> user_guid,
     password |-> password,
     image_count |-> 0,
     suggestion_count |-> 0]

count_field(usage_type) ==
    IF usage_type = "image" THEN "image_count" ELSE "suggestion_count"
limit_field(usage_type) ==
    IF usage_type = "image" THEN "image_limit" ELSE "suggestion_limit"

\* `usage_doc["image_count"] >= password_doc["image_limit"]` (lines 262-267).
limit_reached(usage_doc, password_doc, usage_type) ==
    usage_doc[count_field(usage_type)] >= password_doc[limit_field(usage_type)]

\* What validate_password returns: the tuple (is_valid, bypass_watchdog,
\* password_doc), or an exception (raised).
Denied == [is_valid |-> FALSE, bypass_watchdog |-> FALSE, password_doc |-> NoDoc,
           raised |-> FALSE]
AdminAllowed == [is_valid |-> TRUE, bypass_watchdog |-> FALSE, password_doc |-> NoDoc,
                 raised |-> FALSE]
KeyErrorRaised == [is_valid |-> FALSE, bypass_watchdog |-> FALSE, password_doc |-> NoDoc,
                   raised |-> TRUE]

\* The usage collection after validate_password: the tracking document is
\* inserted when the lookup found none (lines 249-258).
validate_usage_resetting(pwds, ut, t, password, user_guid) ==
    IF is_admin(password) THEN ut
    ELSE IF find_password(pwds, lower(password), t) = NoDoc THEN ut
    ELSE [ut EXCEPT ![validate_usage_key(user_guid, password)] =
                       <<new_usage_doc(user_guid, password)>>]
validate_usage(pwds, ut, t, password, user_guid) ==
    IF is_admin(password) THEN ut
    ELSE IF find_password(pwds, lower(password), t) = NoDoc THEN ut
    ELSE IF find_usage(ut, validate_usage_key(user_guid, password)) = NoDoc
         THEN [ut EXCEPT ![validate_usage_key(user_guid, password)] =
                            Append(@, new_usage_doc(user_guid, password))]
         ELSE ut

\* The value validate_password returns.
validate_result(pwds, ut, t, password, user_guid, usage_type) ==
    IF is_admin(password) THEN AdminAllowed
    ELSE LET password_doc == find_password(pwds, lower(password), t)
             found == find_usage(ut, validate_usage_key(user_guid, password))
             usage_doc == IF found = NoDoc THEN [image_count |-> 0, suggestion_count |-> 0]
                          ELSE found
         IN IF password_doc = NoDoc THEN Denied
            ELSE IF count_field(usage_type) \notin DOMAIN usage_doc THEN KeyErrorRaised
            ELSE IF limit_reached(usage_doc, password_doc, usage_type) THEN Denied
            ELSE [is_valid |-> TRUE,
                  bypass_watchdog |-> password_doc.bypass_watchdog,
                  password_doc |-> password_doc,
                  raised |-> FALSE]

(***************************************************************************)
(* increment_usage (main.py:271-290)                                       *)
(***************************************************************************)
\* update_one({"usage_key": key}, {"$inc": {field: 1}}, upsert=True): the first
\* matching document gets the field incremented (a missing field counts from
\* 0); with no match a document holding the key and the field is inserted.
inc_upsert_set(ut, key, field) ==
    LET found == find_usage(ut, key)
    IN IF found = NoDoc
         THEN [ut EXCEPT ![key] = <<(field :> 1) @@ [usage_key |-> key]>>]
         ELSE [ut EXCEPT ![key][1] = (field :> 1) @@ @]
inc_upsert_every_counter(ut, key, field) ==
    LET found == find_usage(ut, key)
    IN IF found = NoDoc
         THEN [ut EXCEPT ![key] = <<(field :> 1) @@ [usage_key |-> key]>>]
         ELSE [ut EXCEPT ![key][1] =
                  [f \in DOMAIN @ |-> IF f \in {"image_count", "suggestion_count"}
                                        THEN @[f] + 1 ELSE @[f]]]
inc_upsert(ut, key, field) ==
    LET found == find_usage(ut, key)
    IN IF found = NoDoc
         THEN [ut EXCEPT ![key] = <<(field :> 1) @@ [usage_key |-> key]>>]
         ELSE IF field \in DOMAIN found
                THEN [ut EXCEPT ![key][1][field] = @ + 1]
                ELSE [ut EXCEPT ![key][1] = (field :> 1) @@ @]

increment_usage_metering_admin(ut, password, user_guid, usage_type) ==
    inc_upsert(ut, increment_usage_key(user_guid, password), count_field(usage_type))
increment_usage(ut, password, user_guid, usage_type) ==
    IF is_admin(password) THEN ut
    ELSE inc_upsert(ut, increment_usage_key(user_guid, password), count_field(usage_type))

(***************************************************************************)
(* Administrative endpoints                                                *)
(***************************************************************************)
\* create_password (main.py:1151-1189): the document written by the upsert.
create_password_doc_raw_code(password, valid_hours, image_limit, suggestion_limit, bypass_watchdog, image_model, t) ==
    [password |-> password,
     valid_hours |-> valid_hours,
     image_limit |-> image_limit,
     suggestion_limit |-> suggestion_limit,
     bypass_watchdog |-> bypass_watchdog,
     image_model |-> IF image_model \in {"gemini", "imagen"} THEN image_model ELSE "gemini",
     created_at |-> t,
     expires_at |-> t + valid_hours * HOUR]
create_password_doc(password, valid_hours, image_limit, suggestion_limit, bypass_watchdog, image_model, t) ==
    [password |-> lower(password),
     valid_hours |-> valid_hours,
     image_limit |-> image_limit,
     suggestion_limit |-> suggestion_limit,
     bypass_watchdog |-> bypass_watchdog,
     image_model |-> IF image_model \in {"gemini", "imagen"} THEN image_model ELSE "gemini",
     created_at |-> t,
     expires_at |-> t + valid_hours * HOUR]

\* update_one({"password": password_lower}, {"$set": fields}, upsert=...): the
\* fields are set in one document that matches, the others are left alone;
\* with no match the document is inserted (the callers without upsert have
\* found a match before).
upsert_password(pwds, doc) ==
    LET hits == {d \in pwds : d.password = doc.password}
    IN IF hits = {} THEN pwds \cup {doc}
       ELSE LET existing == CHOOSE d \in hits : TRUE
            IN (pwds \ {existing}) \cup {doc @@ existing}

\* delete_many({"password": password_lower}) on the usage collection (line 1225).
delete_usage(ut, password_lower) ==
    [key \in DOMAIN ut |->
        SelectSeq(ut[key],
                  LAMBDA d : ~("password" \in DOMAIN d /\ d.password = password_lower))]

(***************************************************************************)
(* SpecStore: the store and the ledger called one operation at a time.     *)
(* The administrator's endpoints and a client that validates, then either  *)
(* completes its operation (increment_usage) or gives it up, as the        *)
(* handlers do; the clock advances by whole hours.                         *)
(***************************************************************************)
LowerCodes == {lower(p) : p \in PasswordInputs}

\* Codes the administrator creates (stored lowercased: one ordinary code and a
\* code that spells the operator secret), and the settings the model gives
\* them; the code the administrator updates and deletes; the codes and the
\* user of the client's operations.
CreateInputs == {PW_AB, PW_ADMIN_UPPER}
ChangeInputs == {PW_AB}
ClientInputs == {PW_ab, PW_AB, ADMIN_PASSWORD}
OrdinaryInputs == ClientInputs \ {ADMIN_PASSWORD}
ClientUsers == {USER_u}
ShareInputs == {PW_ab, PW_Admin}
ValidHoursInputs == {1}
ImageLimitInputs == {2}
SuggestionLimitInputs == {1}
BypassInputs == {FALSE}
ImageModelInputs == {"gemini", "dall-e"}
\* The optional fields of PasswordUpdate the administrator sends: a new image
\* limit, the suggestion limit, a longer validity, an unrecognised model.
UpdateImageLimitInputs == {{}, {1}}
UpdateSuggestionLimitInputs == {{}, {1}}
UpdateValidHoursInputs == {{}, {2}}
UpdateImageModelInputs == {{}, {"dall-e"}}

\* POST /api/admin/passwords/create (main.py:1151-1189)
create_password(password, valid_hours, image_limit, suggestion_limit, bypass_watchdog, image_model) ==
    /\ passwords' = upsert_password(passwords,
            create_password_doc(password, valid_hours, image_limit, suggestion_limit,
                                bypass_watchdog, image_model, now))
    /\ UNCHANGED <<now, limiterVars, usage_tracking, clientVars, reqVars, concVars, probeVars, moderationVars, ledgerVars>>

\* PUT /api/admin/passwords/{password} (main.py:1233-1280).  An optional field
\* of PasswordUpdate is a set: empty for None, a singleton when supplied.
update_fields_stamping(image_limit, suggestion_limit, valid_hours, image_model, t) ==
    (IF image_limit # {} THEN [image_limit |-> CHOOSE x \in image_limit : TRUE]
     ELSE <<>>)
    @@ (IF suggestion_limit # {}
          THEN [suggestion_limit |-> CHOOSE x \in suggestion_limit : TRUE] ELSE <<>>)
    @@ (IF image_model # {} /\ image_model \subseteq {"gemini", "imagen"}
          THEN [image_model |-> CHOOSE x \in image_model : TRUE] ELSE <<>>)
    @@ (IF valid_hours # {}
          THEN [valid_hours |-> CHOOSE x \in valid_hours : TRUE,
                expires_at |-> t + (CHOOSE x \in valid_hours : TRUE) * HOUR]
          ELSE <<>>)
    @@ [created_at |-> t]
update_fields(image_limit, suggestion_limit, valid_hours, image_model, t) ==
    (IF image_limit # {} THEN [image_limit |-> CHOOSE x \in image_limit : TRUE]
     ELSE <<>>)
    @@ (IF suggestion_limit # {}
          THEN [suggestion_limit |-> CHOOSE x \in suggestion_limit : TRUE] ELSE <<>>)
    @@ (IF image_model # {} /\ image_model \subseteq {"gemini", "imagen"}
          THEN [image_model |-> CHOOSE x \in image_model : TRUE] ELSE <<>>)
    @@ (IF valid_hours # {}
          THEN [valid_hours |-> CHOOSE x \in valid_hours : TRUE,
                expires_at |-> t + (CHOOSE x \in valid_hours : TRUE) * HOUR]
          ELSE <<>>)

\* The HTTP status update_password answers with.
update_password_status_fields_first(pwds, password, fields) ==
    IF DOMAIN fields = {} THEN 400
    ELSE IF find_one_password(pwds, lower(password)) = NoDoc THEN 404
    ELSE 200
update_password_status(pwds, password, fields) ==
    IF find_one_password(pwds, lower(password)) = NoDoc THEN 404
    ELSE IF DOMAIN fields = {} THEN 400
    ELSE 200

update_password_resetting(password, image_limit, suggestion_limit, valid_hours, image_model) ==
    LET password_lower == lower(password)
        existing == find_one_password(passwords, password_lower)
        fields == update_fields(image_limit, suggestion_limit, valid_hours, image_model, now)
        found == update_password_status(passwords, password, fields) = 200
    IN /\ passwords' = IF found THEN upsert_password(passwords, fields @@ existing)
                       ELSE passwords
       /\ usage_tracking' = IF found THEN delete_usage(usage_tracking, password_lower)
                            ELSE usage_tracking
       /\ UNCHANGED <<now, limiterVars, clientVars, reqVars, concVars, probeVars, moderationVars, ledgerVars>>
update_password(password, image_limit, suggestion_limit, valid_hours, image_model) ==
    LET password_lower == lower(password)
        existing == find_one_password(passwords, password_lower)
        fields == update_fields(image_limit, suggestion_limit, valid_hours, image_model, now)
    IN /\ passwords' = IF update_password_status(passwords, password, fields) = 200
                         THEN upsert_password(passwords, fields @@ existing)
                         ELSE passwords
       /\ UNCHANGED <<now, limiterVars, usage_tracking, clientVars, reqVars, concVars, probeVars, moderationVars, ledgerVars>>

\* The HTTP status delete_password answers with: 404 when delete_one removed
\* nothing.
delete_password_status(pwds, password) ==
    IF find_one_password(pwds, lower(password)) = NoDoc THEN 404 ELSE 200

\* DELETE /api/admin/passwords/{password} (main.py:1213-1231)
delete_password(password) ==
    LET password_lower == lower(password)
    IN /\ IF delete_password_status(passwords, password) = 404
            THEN UNCHANGED <<passwords, usage_tracking, pairs>>
            ELSE /\ passwords' = {d \in passwords : d.password # password_lower}
                 /\ usage_tracking' = delete_usage(usage_tracking, password_lower)
                 /\ pairs' = [k \in DOMAIN pairs |->
                                 IF k[2] = password_lower THEN 0 ELSE pairs[k]]
       /\ UNCHANGED <<now, limiterVars, pending, reqVars, concVars, probeVars, moderationVars, ledgerVars>>

\* POST /api/password/validate (main.py:1514-1548)
validate_password_endpoint_result(pwds, t, password) ==
    IF is_admin(password) THEN [valid |-> TRUE, is_admin |-> TRUE]
    ELSE LET password_doc == find_password(pwds, lower(password), t)
         IN IF password_doc = NoDoc THEN [valid |-> FALSE]
            ELSE [valid |-> TRUE, is_admin |-> FALSE,
                  image_limit |-> password_doc.image_limit,
                  suggestion_limit |-> password_doc.suggestion_limit,
                  expires_at |-> password_doc.expires_at]

\* The answer the client keeps of its last probe.
probe_answer(pwds, t, password) ==
    [password |-> password, at |-> t,
     response |-> validate_password_endpoint_result(pwds, t, password)]

validate_password_endpoint_tracking(password) ==
    /\ probe' = probe_answer(passwords, now, password)
    /\ usage_tracking' = validate_usage(passwords, usage_tracking, now, password, USER_u)
    /\ UNCHANGED <<now, limiterVars, passwords, clientVars, reqVars, concVars, moderationVars, ledgerVars>>
validate_password_endpoint(password) ==
    /\ probe' = probe_answer(passwords, now, password)
    /\ UNCHANGED <<now, limiterVars, storeVars, clientVars, reqVars, concVars, moderationVars, ledgerVars>>

\* A handler calls validate_password (lines 754, 820, 950, 1059).
call_validate_password(password, user_guid, usage_type) ==
    LET result == validate_result(passwords, usage_tracking, now,
                                  password, user_guid, usage_type)
    IN /\ pending = NoDoc
       /\ usage_tracking' = validate_usage(passwords, usage_tracking, now,
                                           password, user_guid)
       /\ pending' = IF result.is_valid
                       THEN [password |-> password, user_guid |-> user_guid,
                             usage_type |-> usage_type]
                       ELSE NoDoc
       /\ UNCHANGED <<now, limiterVars, passwords, pairs, reqVars, concVars, probeVars, moderationVars, ledgerVars>>

\* The counter increment_usage would update is below the model's bound.
CounterBelowMax(ut, password, user_guid, usage_type) ==
    LET found == find_usage(ut, increment_usage_key(user_guid, password))
    IN IF is_admin(password) \/ found = NoDoc THEN TRUE
       ELSE IF count_field(usage_type) \notin DOMAIN found THEN TRUE
       ELSE found[count_field(usage_type)] < MaxCount

\* The handler completes and calls increment_usage with the arguments it
\* validated (lines 802, 869, 1030, 1080).
call_increment_usage ==
    /\ pending # NoDoc
    /\ CounterBelowMax(usage_tracking, pending.password, pending.user_guid,
                       pending.usage_type)
    /\ pairs' = IF is_admin(pending.password) THEN pairs
                 ELSE [pairs EXCEPT ![<<pending.user_guid, lower(pending.password),
                                        pending.usage_type>>] = @ + 1]
    /\ usage_tracking' = increment_usage(usage_tracking, pending.password,
                                         pending.user_guid, pending.usage_type)
    /\ pending' = NoDoc
    /\ UNCHANGED <<now, limiterVars, passwords, reqVars, concVars, probeVars, moderationVars, ledgerVars>>

\* The handler fails after validation (moderation, provider): no increment.
abandon_operation ==
    /\ pending # NoDoc
    /\ pending' = NoDoc
    /\ UNCHANGED <<now, limiterVars, storeVars, pairs, reqVars, concVars, probeVars, moderationVars, ledgerVars>>

(***************************************************************************)
(* Token usage and cost (main.py:70-89, 315-371, 1366-1512).  Money is     *)
(* counted in units of 10^-8 USD, in which every rate of GEMINI_PRICING is *)
(* a whole number per image and per token; the floats of the program are   *)
(* these numbers up to rounding error.  An Optional value is a set: {} for *)
(* None, {v} for the value v.                                              *)
(***************************************************************************)
\* The model names of the helpers (lines 396, 445, 492) and one that
\* GEMINI_PRICING does not know.
MODEL_FLASH == "gemini-2.5-flash"
MODEL_FLASH_IMAGE == "gemini-2.5-flash-image"
MODEL_IMAGEN == "imagen-4.0-fast-generate-001"
MODEL_UNKNOWN == "gemini-3"

\* GEMINI_PRICING (lines 73-89): 0.15 USD is 15000000 units.
GEMINI_PRICING ==
    MODEL_FLASH :> [input_per_million |-> 15000000,
                    output_per_million |-> 60000000,
                    thinking_per_million |-> 350000000]
    @@ MODEL_FLASH_IMAGE :> [per_image |-> 3900000,
                             input_per_million |-> 15000000,
                             output_per_million |-> 60000000]
    @@ MODEL_IMAGEN :> [per_image |-> 2000000,
                        input_per_million |-> 0,
                        output_per_million |-> 0]

\* dict.get(key, default)
get(d, key, default) == IF key \in DOMAIN d THEN d[key] ELSE default

\* `(tokens / 1_000_000) * rate` (lines 340, 343, 346)
per_million_flat(tokens, rate) == rate \div 1000000
per_million(tokens, rate) == (tokens * rate) \div 1000000

\* The cost of a call (lines 332-346).
cost_usd(model, prompt_tokens, completion_tokens, thinking_tokens, images_generated) ==
    LET pricing == get(GEMINI_PRICING, model, GEMINI_PRICING[MODEL_FLASH])
    IN (IF images_generated > 0
          THEN images_generated * get(pricing, "per_image", 3900000) ELSE 0)
       + (IF prompt_tokens > 0
            THEN per_million(prompt_tokens, get(pricing, "input_per_million", 15000000))
            ELSE 0)
       + (IF completion_tokens > 0
            THEN per_million(completion_tokens,
                             get(pricing, "output_per_million", 60000000))
            ELSE 0)
       + (IF thinking_tokens > 0
            THEN per_million(thinking_tokens,
                             get(pricing, "thinking_per_million", 350000000))
            ELSE 0)

\* The label of the privileged code (lines 352, 796, 863, 1133): "admin".
ADMIN_LABEL == <<"a", "d", "m", "i", "n">>

\* password_normalized (lines 348-354); `if password:` is false for None and
\* for the empty string.
password_normalized_raw(password) ==
    IF password = {} \/ password = {<<>>} THEN {}
    ELSE {IF is_admin(p) THEN ADMIN_LABEL ELSE p : p \in password}
password_normalized(password) ==
    IF password = {} \/ password = {<<>>} THEN {}
    ELSE {IF is_admin(p) THEN ADMIN_LABEL ELSE lower(p) : p \in password}

\* usage_doc of track_token_usage (lines 356-367); created_at is not modelled.
token_usage_doc(operation_type, model, prompt_tokens, completion_tokens, thinking_tokens, total_tokens, images_generated, password) ==
    [operation_type |-> operation_type,
     model |-> model,
     prompt_tokens |-> prompt_tokens,
     completion_tokens |-> completion_tokens,
     thinking_tokens |-> thinking_tokens,
     total_tokens |-> total_tokens,
     images_generated |-> images_generated,
     cost_usd |-> cost_usd(model, prompt_tokens, completion_tokens, thinking_tokens,
                           images_generated),
     password |-> password_normalized(password)]

\* token_usage_collection after track_token_usage (lines 330-371); when
\* insert_one raises, the except of lines 370-371 prints and the collection
\* is as before.
track_token_usage(tu, operation_type, model, prompt_tokens, completion_tokens, thinking_tokens, total_tokens, images_generated, password, insert_one_ok) ==
    IF insert_one_ok
      THEN Append(tu, token_usage_doc(operation_type, model, prompt_tokens,
                                      completion_tokens, thinking_tokens,
                                      total_tokens, images_generated, password))
      ELSE tu

\* Whether track_token_usage raises into its caller: it never does, the
\* try of line 330 spans its whole body.
track_token_usage_reraising(insert_one_ok) == ~insert_one_ok
track_token_usage_raises(insert_one_ok) == FALSE

\* response.usage_metadata (lines 406-414): absent, or the token counts of
\* the call.
NoUsage == NoDoc
USAGE_NONE == [prompt_token_count |-> 0, candidates_token_count |-> 0,
               thoughts_token_count |-> 0, total_token_count |-> 0]
USAGE_TOKENS == [prompt_token_count |-> 3, candidates_token_count |-> 2,
                 thoughts_token_count |-> 1, total_token_count |-> 6]

\* Inputs of SpecCost.
CostModels == {MODEL_FLASH, MODEL_FLASH_IMAGE, MODEL_IMAGEN, MODEL_UNKNOWN}
CostUsages == {USAGE_NONE, USAGE_TOKENS}
CostImages == {0, 2}
CostPasswords == {{}, {<<>>}, {PW_ab}, {PW_AB}, {ADMIN_PASSWORD}, {PW_ADMIN_UPPER}}

\* Inputs of SpecReport.
ReportModels == {MODEL_FLASH, MODEL_FLASH_IMAGE}
ReportImages == {0, 1}

\* A call of track_token_usage, while the collection has fewer than `limit`
\* documents.
call_track_token_usage(operation_type, model, prompt_tokens, completion_tokens, thinking_tokens, total_tokens, images_generated, password, insert_one_ok, limit) ==
    /\ insert_one_ok => Len(token_usage) < limit
    /\ token_usage' = track_token_usage(token_usage, operation_type, model, prompt_tokens,
                                        completion_tokens, thinking_tokens, total_tokens,
                                        images_generated, password, insert_one_ok)
    /\ UNCHANGED <<now, limiterVars, storeVars, clientVars, reqVars, concVars, probeVars,
                   moderationVars, report>>

\* {"$sum": "$<field>"} and {"$sum": 1} over the documents of one model
\* (lines 1443-1452).
RECURSIVE group_sum(_, _, _)
group_sum(tu, model, field) ==
    IF tu = <<>> THEN 0
    ELSE (IF Head(tu).model = model THEN Head(tu)[field] ELSE 0)
         + group_sum(Tail(tu), model, field)

group_count_all(tu, model) == Len(tu)

RECURSIVE group_count(_, _)
group_count(tu, model) ==
    IF tu = <<>> THEN 0
    ELSE (IF Head(tu).model = model THEN 1 ELSE 0) + group_count(Tail(tu), model)

\* One group of pipeline_by_model (lines 1442-1453).
group_by_model(tu, model) ==
    [_id |-> model,
     prompt_tokens |-> group_sum(tu, model, "prompt_tokens"),
     completion_tokens |-> group_sum(tu, model, "completion_tokens"),
     thinking_tokens |-> group_sum(tu, model, "thinking_tokens"),
     total_tokens |-> group_sum(tu, model, "total_tokens"),
     images_generated |-> group_sum(tu, model, "images_generated"),
     cost_usd |-> group_sum(tu, model, "cost_usd"),
     request_count |-> group_count(tu, model)]

\* {"$sort": {"cost_usd": -1}} (line 1455): the orders of the groups in which
\* the cost never goes up; groups of equal cost come in any order.
sort_by_cost(groups) ==
    LET n == Cardinality(groups)
    IN {seq \in [1..n -> groups] :
           /\ \A i, j \in 1..n : i # j => seq[i] # seq[j]
           /\ \A i, j \in 1..n : i < j => seq[i].cost_usd >= seq[j].cost_usd}

\* cursor.to_list(length) (line 1459)
to_list(seq, length) == SubSeq(seq, 1, IF Len(seq) < length THEN Len(seq) ELSE length)

\* What pipeline_by_model can return (lines 1441-1459).
by_model_results(tu) ==
    {to_list(seq, 100) :
        seq \in sort_by_cost({group_by_model(tu, tu[i].model) : i \in 1..Len(tu)})}

\* round(cost_usd, 6) (line 1507): to whole units of 10^-6 USD; a cost half
\* way between two of them goes to either, by the rounding error of its float.
round6(cost) ==
    LET down == (cost \div 100) * 100
    IN IF cost % 100 < 50 THEN {down}
       ELSE IF cost % 100 > 50 THEN {down + 100}
       ELSE {down, down + 100}

\* One by_model item of the response (lines 1498-1510).
by_model_item(g, rounded_cost) ==
    [model |-> g._id,
     prompt_tokens |-> g.prompt_tokens,
     completion_tokens |-> g.completion_tokens,
     thinking_tokens |-> g.thinking_tokens,
     total_tokens |-> g.total_tokens,
     images_generated |-> g.images_generated,
     cost_usd |-> rounded_cost,
     request_count |-> g.request_count]

by_model_items(by_model) ==
    LET n == Len(by_model)
        rounded == UNION {round6(by_model[i].cost_usd) : i \in 1..n}
    IN {[i \in 1..n |-> by_model_item(by_model[i], cost[i])] :
           cost \in {c \in [1..n -> rounded] :
                        \A i \in 1..n : c[i] \in round6(by_model[i].cost_usd)}}

\* GET /api/admin/token-usage (main.py:1366-1512), its by_model part; total,
\* by_operation and by_password are computed the same way from the same
\* documents and are not part of the state.
get_token_usage ==
    /\ report' \in UNION {{[by_model |-> by_model, response |-> items] :
                                items \in by_model_items(by_model)} :
                             by_model \in by_model_results(token_usage)}
    /\ UNCHANGED <<now, limiterVars, storeVars, clientVars, reqVars, concVars, probeVars,
                   moderationVars, token_usage>>

(***************************************************************************)
(* Request handlers (main.py:744-880, 945-1085) and the helpers that call  *)
(* the AI provider (main.py:373-706).  One request is handled at a time;   *)
(* every await of a handler is a step, and check_rate_limit (whose locked  *)
(* section SpecRL interleaves) is one step here.                           *)
(***************************************************************************)
\* The deque after the eviction loop of check_rate_limit (lines 206-207).
RECURSIVE evicted(_, _)
evicted(ts, one_minute_ago) ==
    IF MustEvict(ts, one_minute_ago) THEN evicted(Tail(ts), one_minute_ago) ELSE ts

\* What check_rate_limit returns when called at time t (lines 203-215).
check_rate_limit_result(ts, t) == ~AtLimit(evicted(ts, t - WINDOW))

\* The deque check_rate_limit leaves when called at time t.
check_rate_limit_deque(ts, t) ==
    IF check_rate_limit_result(ts, t) THEN Append(evicted(ts, t - WINDOW), t)
    ELSE evicted(ts, t - WINDOW)

\* `if not await check_rate_limit(): raise ...` (lines 377, 440, 488, 529, 571,
\* 663, 955): the helper leaves before its provider call.
rate_limit_never_raises(admit) == FALSE
rate_limit_raises(admit) == ~admit

Kinds == {"generate", "edit", "suggest_prompts", "suggest_edits"}
Stages == {"moderation", "gemini", "imagen", "edit", "describe", "suggest_edits",
           "suggest_prompts"}

\* The category validate_password and increment_usage are called with
\* (lines 754, 820, 950, 1059).
usage_type_of(kind) == IF kind \in {"generate", "edit"} THEN "image" ELSE "suggestion"

DETAIL_USER_NOT_FOUND == "User not found"
DETAIL_IMAGE_NOT_FOUND == "Image not found"
DETAIL_INVALID_PASSWORD == "Invalid or expired password"
DETAIL_TOO_MANY == "Too many requests. Please try again in a moment."
DETAIL_RATE_LIMIT == "Rate limit exceeded. Please try again in a moment."
DETAIL_GENERATE_FAILED == "Failed to generate image. Please try again with a different prompt."
DETAIL_EDIT_FAILED == "Failed to edit image. Please try again with a different prompt."
DETAIL_SUGGEST_EDITS_ERROR == "Error suggesting edits: "
FALLBACK_DESCRIPTION == "AI-generated image"

Response(status, detail, body) == [status |-> status, detail |-> detail, body |-> body]

\* The fallback list suggest_prompts returns from `except Exception` (lines 1034-1039).
FallbackSuggestions == Response(200, "", "fallback_suggestions")

\* What the client receives when an HTTPException is raised inside the handler's
\* try block: generate_image and edit_image re-raise it (lines 806-807, 873-874),
\* suggest_prompts catches it as an Exception and answers with the fallback list
\* (line 1034), suggest_edits wraps it in a 500 (lines 1084-1085).
http_exception(kind, status, detail) ==
    CASE kind \in {"generate", "edit"} -> Response(status, detail, "error")
      [] kind = "suggest_prompts" -> FallbackSuggestions
      [] kind = "suggest_edits" -> Response(500, DETAIL_SUGGEST_EDITS_ERROR, "error")

\* What the client receives when another exception reaches the handler's
\* `except Exception` (lines 808-813, 875-880, 1034, 1084); rate_limit_message
\* is `"Rate limit exceeded" in str(e)`.
exception(kind, rate_limit_message) ==
    CASE kind \in {"generate", "edit"} ->
            IF rate_limit_message THEN Response(429, DETAIL_TOO_MANY, "error")
            ELSE Response(500, IF kind = "generate" THEN DETAIL_GENERATE_FAILED
                               ELSE DETAIL_EDIT_FAILED, "error")
      [] kind = "suggest_prompts" -> FallbackSuggestions
      [] kind = "suggest_edits" -> Response(500, DETAIL_SUGGEST_EDITS_ERROR, "error")

ReqIdle ==
    [pc |-> "idle", kind |-> "none", stage |-> "none",
     password |-> <<>>, user_guid |-> <<>>,
     validated |-> "none",   \* history: how validate_password ended for the request
     cause |-> "none",       \* history: the error outcome that ended the request
     bypass_watchdog |-> FALSE, image_model |-> "gemini",
     description |-> "", suggestions |-> "none",
     described |-> "none",   \* history: how describe_image_with_gemini ended
     image_description |-> "none", \* history: the description of the inserted image record
     guidelines |-> <<>>,    \* the guidelines moderate_content read, <<>> before it did
     guidelines_set |-> FALSE, \* history: the guidelines were written since moderate_content
                             \* was entered
     moderation |-> "none",  \* history: how the judgment call of moderate_content ended
     is_appropriate |-> FALSE, \* what moderate_content returned, once moderation # "none"
     admit |-> FALSE,        \* what the last check_rate_limit of the request returned
     admit_stage |-> "none", \* the helper that made that call
     refused |-> {},         \* history: helpers whose check_rate_limit returned False
     called |-> {},          \* history: helpers whose provider call was issued
     file_written |-> FALSE, image_inserted |-> FALSE,
     increments |-> 0,       \* history: calls of increment_usage made by the request
     created_with_password |-> {}, \* history: the label of the inserted image record
     ledger_start |-> 0,     \* history: the documents of token_usage_collection when
                             \* the request arrived
     answers |-> {},         \* history: helper and outcome of every provider call of
                             \* the request that returned a response
     untracked |-> {},       \* history: helpers whose track_token_usage failed to insert
     response |-> Response(0, "", "none")]

\* The handler returns or raises: the request is over.
finish(r, response) == [r EXCEPT !.pc = "done", !.stage = "none", !.response = response]

\* The handler calls a helper, which starts with check_rate_limit.
enter(r, stage) == [r EXCEPT !.pc = "rate", !.stage = stage]

\* generate_image picks the helper by image_model (lines 770-773).
generation_stage(image_model) == IF image_model = "imagen" THEN "imagen" ELSE "gemini"

\* `if not bypass_watchdog:` (lines 764, 830): the handler calls moderate_content.
moderation_never_required(bypass_watchdog) == FALSE
moderation_required(bypass_watchdog) == ~bypass_watchdog

\* After moderation passed or was bypassed (lines 764-773, 830-839).
after_moderation(r) ==
    IF r.kind = "generate" THEN enter(r, generation_stage(r.image_model))
    ELSE enter(r, "edit")

\* What describe_image_with_gemini returns (lines 561-565): the description of
\* the parsed answer; the fallback text from `except Exception` when
\* check_rate_limit refused, the provider call failed or the answer was not
\* the JSON asked for.
described_text_no_fallback(outcome) == IF outcome = "text" THEN "text" ELSE ""
described_text(outcome) ==
    CASE outcome = "text" -> "text"
      [] outcome = "empty" -> ""
      [] OTHER -> FALLBACK_DESCRIPTION

\* After describe_image_with_gemini returned (lines 784-799, 850-866, 1070-1075).
after_describe_skipping_insert(r, description) ==
    [r EXCEPT !.pc = IF r.kind = "suggest_edits" THEN "update_description"
                     ELSE "increment",
              !.stage = "none",
              !.description = description]
after_describe(r, description) ==
    [r EXCEPT !.pc = IF r.kind = "suggest_edits" THEN "update_description"
                     ELSE "insert_image",
              !.stage = "none",
              !.description = description]

\* Why validate_password refused: no unexpired credential (lines 240-241) or a
\* counter at its limit (lines 261-267).
denial_cause(pwds, t, password) ==
    IF find_password(pwds, lower(password), t) = NoDoc THEN "unauthorized"
    ELSE "quota_exceeded"

\* A generation, edit or suggestion helper raised after its provider call
\* (lines 480-482, 521-523, 704-706, 1034).
provider_failed_continuing(r) ==
    [r EXCEPT !.cause = "provider_failure", !.pc = "write_file", !.stage = "none"]
provider_failed(r) ==
    finish([r EXCEPT !.cause = "provider_failure"], exception(r.kind, FALSE))

\* The guideline texts: the built-in default (lines 92-101), two texts an
\* administrator sets, and a text of white space.
DEFAULT_MODERATION_GUIDELINES == <<"d", "e", "f", "a", "u", "l", "t">>
GUIDELINES_g == <<"g">>
GUIDELINES_h == <<"h">>
GUIDELINES_BLANK == <<" ", " ">>
GuidelineInputs == {GUIDELINES_g, GUIDELINES_h, GUIDELINES_BLANK}

\* str.strip(): leading and trailing white space removed.
RECURSIVE lstrip(_)
lstrip(s) == IF s # <<>> /\ Head(s) = " " THEN lstrip(Tail(s)) ELSE s
RECURSIVE rstrip(_)
rstrip(s) == IF s # <<>> /\ s[Len(s)] = " " THEN rstrip(SubSeq(s, 1, Len(s) - 1)) ELSE s
strip(s) == rstrip(lstrip(s))

\* get_moderation_guidelines (main.py:292-297) on the document with _id
\* "current".
get_moderation_guidelines_default_only(guidelines_doc) == DEFAULT_MODERATION_GUIDELINES
get_moderation_guidelines(guidelines_doc) ==
    IF guidelines_doc # NoDoc /\ "guidelines" \in DOMAIN guidelines_doc
      THEN guidelines_doc.guidelines
    ELSE DEFAULT_MODERATION_GUIDELINES

\* update_one({"_id": "current"}, {"$set": {"guidelines": ...}}, upsert=True)
\* (lines 301-305, 309-313); updated_at is never read and is not modelled.
set_guidelines(guidelines_doc, guidelines) ==
    IF guidelines_doc = NoDoc THEN [guidelines |-> guidelines]
    ELSE [guidelines_doc EXCEPT !.guidelines = guidelines]

\* History: a write of the guidelines completed while moderate_content was
\* running or after it read them.
guidelines_written(r) ==
    IF r.stage = "moderation" \/ r.guidelines # <<>>
      THEN [r EXCEPT !.guidelines_set = TRUE]
    ELSE r

\* What moderate_content returns (lines 417-434): is_appropriate of the parsed
\* answer; False from `except Exception` when check_rate_limit refused, the
\* provider call failed or the answer was not the JSON asked for.
moderation_result_fail_open(outcome) == outcome # "rejected"
moderation_result(outcome) == outcome = "approved"

\* moderate_content returned and the handler acts on it (lines 765-767,
\* 831-833).
after_screen(r, outcome) ==
    LET screened == [r EXCEPT !.moderation = outcome,
                              !.is_appropriate = moderation_result(outcome)]
    IN IF screened.is_appropriate THEN after_moderation(screened)
       ELSE finish([screened EXCEPT !.cause = IF outcome = "rate_limited"
                                                THEN "rate_limited"
                                                ELSE "moderation_rejected"],
                   http_exception(r.kind, 500, DETAIL_GENERATE_FAILED))

\* The request as the helper leaves it when check_rate_limit returned False.
on_rate_limited(r) ==
    CASE r.stage = "moderation" ->
            \* moderate_content returns False from its except (lines 431-434) and
            \* the handler raises the 500 of lines 767, 833.
            after_screen(r, "rate_limited")
      [] r.stage \in {"gemini", "imagen", "edit"} ->
            \* re-raised with the message kept (lines 482, 523, 706)
            finish([r EXCEPT !.cause = "rate_limited"], exception(r.kind, TRUE))
      [] r.stage = "describe" ->
            \* lines 563-565
            after_describe([r EXCEPT !.described = "rate_limited"],
                           described_text("rate_limited"))
      [] r.stage = "suggest_edits" ->
            \* lines 651-657
            [r EXCEPT !.pc = "increment", !.stage = "none", !.suggestions = "fallback"]
      [] r.stage = "suggest_prompts" ->
            \* line 956
            finish(r, http_exception(r.kind, 429, DETAIL_RATE_LIMIT))

\* A client sends a request.  users_collection is not part of the state:
\* whether generate_image finds the user (lines 749-751) is an input.
receive(kind, password, user_guid, user_found) ==
    /\ req.pc \in {"idle", "done"}
    /\ req' = IF kind = "generate" /\ ~user_found
                THEN finish([ReqIdle EXCEPT !.kind = kind, !.password = password,
                                            !.user_guid = user_guid,
                                            !.ledger_start = Len(token_usage)],
                            http_exception(kind, 404, DETAIL_USER_NOT_FOUND))
                ELSE [ReqIdle EXCEPT !.pc = "validate", !.kind = kind,
                                     !.password = password, !.user_guid = user_guid,
                                     !.ledger_start = Len(token_usage)]

request(kind, password, user_guid, user_found) ==
    /\ receive(kind, password, user_guid, user_found)
    /\ UNCHANGED <<now, limiterVars, storeVars, clientVars, concVars, probeVars, moderationVars, ledgerVars, images, prev>>

\* The same, remembering how the request before it ended when that was one of
\* the error outcomes.
request_after_outcome(kind, password, user_guid, user_found) ==
    /\ receive(kind, password, user_guid, user_found)
    /\ prev' = IF req.pc = "done" /\ req.cause # "none"
                 THEN [kind |-> req.kind, cause |-> req.cause, response |-> req.response]
                 ELSE prev
    /\ UNCHANGED <<now, limiterVars, storeVars, clientVars, concVars, probeVars, moderationVars, ledgerVars, images>>

\* validate_password and the handler's reading of its result (lines 754-761,
\* 820-822, 950-952, 1059-1061).
handler_validate ==
    LET result == validate_result(passwords, usage_tracking, now, req.password,
                                  req.user_guid, usage_type_of(req.kind))
        image_model == IF result.password_doc # NoDoc
                         THEN result.password_doc.image_model ELSE "gemini"
        validated == [req EXCEPT !.validated = "allowed",
                                 !.bypass_watchdog = result.bypass_watchdog,
                                 !.image_model = image_model]
    IN /\ req.pc = "validate"
       /\ usage_tracking' = validate_usage(passwords, usage_tracking, now,
                                           req.password, req.user_guid)
       /\ req' = IF result.raised
                   THEN finish([req EXCEPT !.validated = "raised"],
                               exception(req.kind, FALSE))
                 ELSE IF ~result.is_valid
                   THEN finish([req EXCEPT !.validated = "denied",
                                           !.cause = denial_cause(passwords, now,
                                                                  req.password)],
                               http_exception(req.kind, 403, DETAIL_INVALID_PASSWORD))
                 ELSE IF req.kind = "suggest_prompts" THEN enter(validated, "suggest_prompts")
                 ELSE IF req.kind \in {"edit", "suggest_edits"}
                   THEN [validated EXCEPT !.pc = "find_image"]
                 ELSE IF moderation_required(result.bypass_watchdog)
                   THEN enter(validated, "moderation")
                 ELSE after_moderation(validated)
       /\ UNCHANGED <<now, limiterVars, passwords, clientVars, concVars, probeVars, moderationVars, ledgerVars, images, prev>>

\* images_collection.find_one of edit_image (lines 825-827) and suggest_edits
\* (lines 1063-1070): the client's image_id addresses a stored image or none.
handler_find_image(image) ==
    /\ req.pc = "find_image"
    /\ image \in images \cup {NoDoc}
    /\ req' = IF image = NoDoc
                THEN finish(req, http_exception(req.kind, 404, DETAIL_IMAGE_NOT_FOUND))
              ELSE IF req.kind = "edit"
                THEN IF moderation_required(req.bypass_watchdog)
                       THEN enter(req, "moderation")
                     ELSE after_moderation(req)
              ELSE IF image.description_empty THEN enter(req, "describe")
              ELSE enter([req EXCEPT !.description = "text"], "suggest_edits")
    /\ UNCHANGED <<now, limiterVars, storeVars, clientVars, concVars, probeVars, moderationVars, ledgerVars, images, prev>>

\* The check_rate_limit call that opens a helper.
helper_check_rate_limit(stage) ==
    LET admit == check_rate_limit_result(request_timestamps, now)
        checked == [req EXCEPT !.admit = admit, !.admit_stage = stage,
                               !.refused = IF admit THEN @ ELSE @ \cup {stage}]
    IN /\ req.pc = "rate"
       /\ req.stage = stage
       /\ request_timestamps' = check_rate_limit_deque(request_timestamps, now)
       /\ req' = IF rate_limit_raises(admit) THEN on_rate_limited(checked)
                 ELSE [checked EXCEPT !.pc = IF stage = "moderation" THEN "guidelines"
                                            ELSE "call"]
       /\ UNCHANGED <<now, rate_limit_lock, rl, admitted, last_release, storeVars,
                      clientVars, concVars, probeVars, moderationVars, ledgerVars, images, prev>>

\* operation_type, model and images_generated of the helper's call of
\* track_token_usage (lines 407-415, 458-467, 502-507, 551-559, 638-646,
\* 684-693, 1016-1024).
operation_type_of(stage) ==
    CASE stage \in {"gemini", "imagen"} -> "image_generation"
      [] stage = "edit" -> "image_edit"
      [] OTHER -> stage
model_of(stage) ==
    CASE stage \in {"gemini", "edit"} -> MODEL_FLASH_IMAGE
      [] stage = "imagen" -> MODEL_IMAGEN
      [] OTHER -> MODEL_FLASH
images_generated_of(stage) == IF stage \in {"gemini", "imagen", "edit"} THEN 1 ELSE 0

\* The provider call returned a response: every outcome but "error".
answered(outcome) == outcome # "error"

\* The helper calls track_token_usage: generate_image_with_imagen after every
\* response (line 502), the others `if hasattr(response, 'usage_metadata')
\* and response.usage_metadata` (lines 406, 457, 550, 637, 683, 1015).
tracks(stage, outcome, usage) ==
    answered(outcome) /\ (stage = "imagen" \/ usage # NoUsage)

\* token_usage_collection after the helper's provider call.
helper_token_usage(tu, stage, outcome, usage, insert_one_ok, password) ==
    IF ~tracks(stage, outcome, usage) THEN tu
    ELSE IF stage = "imagen"
      THEN track_token_usage(tu, operation_type_of(stage), model_of(stage), 0, 0, 0, 0,
                             images_generated_of(stage), {password}, insert_one_ok)
    ELSE track_token_usage(tu, operation_type_of(stage), model_of(stage),
                           usage.prompt_token_count, usage.candidates_token_count,
                           usage.thoughts_token_count, usage.total_token_count,
                           images_generated_of(stage), {password}, insert_one_ok)

\* How the helper goes on after the provider call: as after a failed call
\* when track_token_usage raised into its try, with the outcome otherwise.
helper_outcome(stage, outcome, usage, insert_one_ok) ==
    IF tracks(stage, outcome, usage) /\ track_token_usage_raises(insert_one_ok)
      THEN "error"
    ELSE outcome

\* The history of the request after the provider call.
call_made(r, stage, outcome, usage, insert_one_ok) ==
    [r EXCEPT !.called = @ \cup {stage},
              !.answers = IF answered(outcome) THEN @ \cup {<<stage, outcome>>} ELSE @,
              !.untracked = IF tracks(stage, outcome, usage) /\ ~insert_one_ok
                              THEN @ \cup {stage} ELSE @]

\* The helper's provider call is issued and answered, and the helper records
\* the token usage of the answer.
provider_call(stage, outcome, usage, insert_one_ok, after) ==
    /\ req.pc = "call"
    /\ req.stage = stage
    /\ (tracks(stage, outcome, usage) /\ insert_one_ok) => Len(token_usage) < MaxLedger
    /\ token_usage' = helper_token_usage(token_usage, stage, outcome, usage,
                                         insert_one_ok, req.password)
    /\ req' = call_made(after, stage, outcome, usage, insert_one_ok)
    /\ UNCHANGED <<now, limiterVars, storeVars, clientVars, concVars, probeVars, moderationVars, report, images, prev>>

\* `guidelines = await get_moderation_guidelines()` of moderate_content
\* (line 381).
moderate_content_get_guidelines ==
    /\ req.pc = "guidelines"
    /\ req' = [req EXCEPT !.pc = "call",
                          !.guidelines = get_moderation_guidelines(moderation_guidelines)]
    /\ UNCHANGED <<now, limiterVars, storeVars, clientVars, concVars, probeVars, moderationVars, ledgerVars, images, prev>>

\* The document of lines 423-428 (created_at is not modelled): the prompt is
\* data.prompt of a generate request and data.edit_prompt of an edit request.
moderation_failure_doc(r) ==
    [prompt |-> IF r.kind = "edit" THEN "edit_prompt" ELSE "prompt",
     rejection_reason |-> "rejection_reason",
     is_edit |-> r.kind = "edit"]

\* moderation_failures_collection after the judgment (lines 417-428): a
\* document is inserted when the parsed answer says is_appropriate = false.
moderation_failures_logging_all(failures, r, outcome) ==
    IF outcome # "approved" THEN Append(failures, moderation_failure_doc(r))
    ELSE failures
moderation_failures_after(failures, r, outcome) ==
    IF outcome = "rejected" THEN Append(failures, moderation_failure_doc(r))
    ELSE failures

\* moderate_content from its provider call on (lines 395-434): the provider
\* fails, answers with text that is not the JSON asked for, rejects the prompt
\* or approves it.
moderate_content(outcome, usage, insert_one_ok) ==
    LET o == helper_outcome("moderation", outcome, usage, insert_one_ok)
    IN /\ req.pc = "call"
       /\ req.stage = "moderation"
       /\ o = "rejected" => Len(moderation_failures) < MaxFailures
       /\ (tracks("moderation", outcome, usage) /\ insert_one_ok)
             => Len(token_usage) < MaxLedger
       /\ token_usage' = helper_token_usage(token_usage, "moderation", outcome, usage,
                                            insert_one_ok, req.password)
       /\ req' = call_made(after_screen(req, o), "moderation", outcome, usage,
                           insert_one_ok)
       /\ moderation_failures' = moderation_failures_after(moderation_failures, req, o)
       /\ UNCHANGED <<now, limiterVars, storeVars, clientVars, concVars, probeVars, report, moderation_guidelines, images, prev>>

\* PUT /api/admin/moderation-guidelines (main.py:1318-1336) and
\* update_moderation_guidelines (main.py:299-305).
update_guidelines(guidelines) ==
    /\ moderation_guidelines' = IF strip(guidelines) = <<>> THEN moderation_guidelines
                                ELSE set_guidelines(moderation_guidelines, guidelines)
    /\ req' = IF strip(guidelines) = <<>> THEN req ELSE guidelines_written(req)
    /\ UNCHANGED <<now, limiterVars, storeVars, clientVars, concVars, probeVars, ledgerVars, moderation_failures, images, prev>>

\* POST /api/admin/moderation-guidelines/reset (main.py:1338-1348) and
\* reset_moderation_guidelines (main.py:307-313).
reset_guidelines ==
    /\ moderation_guidelines' = set_guidelines(moderation_guidelines,
                                               DEFAULT_MODERATION_GUIDELINES)
    /\ req' = guidelines_written(req)
    /\ UNCHANGED <<now, limiterVars, storeVars, clientVars, concVars, probeVars, ledgerVars, moderation_failures, images, prev>>

\* generate_image_with_gemini (lines 436-482)
generate_image_with_gemini(outcome, usage, insert_one_ok) ==
    provider_call("gemini", outcome, usage, insert_one_ok,
        IF helper_outcome("gemini", outcome, usage, insert_one_ok) = "image"
          THEN [req EXCEPT !.pc = "write_file", !.stage = "none"]
        ELSE provider_failed(req))

\* generate_image_with_imagen (lines 484-523)
generate_image_with_imagen(outcome, usage, insert_one_ok) ==
    provider_call("imagen", outcome, usage, insert_one_ok,
        IF helper_outcome("imagen", outcome, usage, insert_one_ok) = "image"
          THEN [req EXCEPT !.pc = "write_file", !.stage = "none"]
        ELSE provider_failed(req))

\* edit_image_with_gemini (lines 659-706)
edit_image_with_gemini(outcome, usage, insert_one_ok) ==
    provider_call("edit", outcome, usage, insert_one_ok,
        IF helper_outcome("edit", outcome, usage, insert_one_ok) = "image"
          THEN [req EXCEPT !.pc = "write_file", !.stage = "none"]
        ELSE provider_failed(req))

\* describe_image_with_gemini (lines 525-565)
describe_image_with_gemini(outcome, usage, insert_one_ok) ==
    LET o == helper_outcome("describe", outcome, usage, insert_one_ok)
    IN provider_call("describe", outcome, usage, insert_one_ok,
           after_describe([req EXCEPT !.described = o], described_text(o)))

\* suggest_edits_with_gemini (lines 567-657)
suggest_edits_with_gemini(outcome, usage, insert_one_ok) ==
    LET o == helper_outcome("suggest_edits", outcome, usage, insert_one_ok)
    IN provider_call("suggest_edits", outcome, usage, insert_one_ok,
           [req EXCEPT !.pc = "increment", !.stage = "none",
                       !.suggestions = IF o = "suggestions" THEN "model"
                                       ELSE "fallback"])

\* The provider call of suggest_prompts and json.loads (lines 1004-1027); an
\* answer without the "suggestions" key fails at line 1032, after the increment.
suggest_prompts_call(outcome, usage, insert_one_ok) ==
    LET o == helper_outcome("suggest_prompts", outcome, usage, insert_one_ok)
    IN provider_call("suggest_prompts", outcome, usage, insert_one_ok,
           IF o \in {"error", "malformed"} THEN provider_failed(req)
           ELSE [req EXCEPT !.pc = "increment", !.stage = "none",
                            !.suggestions = IF o = "suggestions" THEN "model"
                                            ELSE "missing_key"])

\* aiofiles write of the image file (lines 780-781, 846-847), then the handler
\* calls describe_image_with_gemini.
handler_write_file ==
    /\ req.pc = "write_file"
    /\ req' = enter([req EXCEPT !.file_written = TRUE], "describe")
    /\ UNCHANGED <<now, limiterVars, storeVars, clientVars, concVars, probeVars, moderationVars, ledgerVars, images, prev>>

\* created_with_password of image_doc (lines 796, 863)
created_with_password(password) ==
    IF password # ADMIN_PASSWORD THEN lower(password) ELSE ADMIN_LABEL

\* images_collection.insert_one (lines 799, 866)
handler_insert_image ==
    /\ req.pc = "insert_image"
    /\ images' = images \cup {[description_empty |-> req.description = ""]}
    /\ req' = [req EXCEPT !.pc = "increment", !.image_inserted = TRUE,
                          !.image_description = req.description,
                          !.created_with_password = {created_with_password(req.password)}]
    /\ UNCHANGED <<now, limiterVars, storeVars, clientVars, concVars, probeVars, moderationVars, ledgerVars, prev>>

\* images_collection.update_one of suggest_edits (lines 1072-1075), then the
\* handler calls suggest_edits_with_gemini.
handler_update_description ==
    /\ req.pc = "update_description"
    /\ images' = images \cup {[description_empty |-> req.description = ""]}
    /\ req' = enter(req, "suggest_edits")
    /\ UNCHANGED <<now, limiterVars, storeVars, clientVars, concVars, probeVars, moderationVars, ledgerVars, prev>>

\* increment_usage and the handler's return (lines 802-804, 869-871, 1030-1032,
\* 1080-1082).
handler_increment ==
    /\ req.pc = "increment"
    /\ usage_tracking' = increment_usage(usage_tracking, req.password, req.user_guid,
                                         usage_type_of(req.kind))
    /\ req' = LET r == [req EXCEPT !.increments = @ + 1]
              IN IF req.kind \in {"generate", "edit"}
                   THEN finish(r, Response(200, "", "image"))
                 ELSE IF req.suggestions = "missing_key"
                   THEN finish(r, exception(req.kind, FALSE))
                 ELSE finish(r, Response(200, "", IF req.suggestions = "model"
                                                    THEN "suggestions"
                                                    ELSE "fallback_suggestions"))
    /\ UNCHANGED <<now, limiterVars, passwords, clientVars, concVars, probeVars, moderationVars, ledgerVars, images, prev>>

\* Inputs of SpecReq.
ReqPasswords == {PW_ab, ADMIN_PASSWORD}
ReqCreateInputs == {PW_ab}
ReqImageModelInputs == {"gemini", "imagen"}
TickStepsReq == {WINDOW + 1}
ImageOutcomes == {"error", "no_image", "image"}

(***************************************************************************)
(* SpecConc: consuming requests of one user handled concurrently.  Every   *)
(* await of validate_password (main.py:223-269) is a step of its own, so   *)
(* that other requests run between the lookup of the usage record and its  *)
(* insertion; increment_usage (main.py:271-290) is one update_one, which   *)
(* the datastore applies atomically.                                       *)
(***************************************************************************)
Procs == 1..MaxProcs

\* The spellings the concurrent requests use for the one stored code, and the
\* category they consume.
ConcPasswords == {PW_ab, PW_AB}
ConcUsageTypes == {"suggestion"}

ConcIdle == [pc |-> "idle", password |-> <<>>, usage_type |-> "image",
             password_doc |-> NoDoc, result |-> "none",
             raced |-> FALSE]   \* history: the increment of the request was made
                                \* while another request was about to increment the
                                \* same counter

\* A process is between the start of validate_password and the end of its
\* request.
InFlight(p) == conc[p].pc \notin {"idle", "done"}

\* The limit check of lines 261-269 on the usage document the call holds.
check_limits(usage_doc, password_doc, usage_type) ==
    IF count_field(usage_type) \notin DOMAIN usage_doc THEN "raised"
    ELSE IF limit_reached(usage_doc, password_doc, usage_type) THEN "denied"
    ELSE "allowed"

\* The request is over: the process keeps nothing of it but the history.
conc_done(c, raced) == [ConcIdle EXCEPT !.pc = "done", !.raced = raced]

\* validate_password returned: the handler goes on or the request is over.
validated(c, result) ==
    IF result = "allowed" THEN [c EXCEPT !.pc = "handler", !.result = result]
    ELSE conc_done(c, FALSE)

\* A handler calls validate_password (lines 754, 820, 950, 1059); the
\* privileged code returns at once (lines 230-231).
conc_request(p, password, usage_type) ==
    /\ conc[p].pc \in {"idle", "done"}
    /\ conc' = [conc EXCEPT ![p] =
                  IF is_admin(password)
                    THEN validated([ConcIdle EXCEPT !.password = password,
                                                    !.usage_type = usage_type], "allowed")
                    ELSE [ConcIdle EXCEPT !.pc = "find_password", !.password = password,
                                          !.usage_type = usage_type]]
    /\ UNCHANGED <<now, limiterVars, storeVars, clientVars, reqVars, probeVars, moderationVars, ledgerVars, incs>>

\* await passwords_collection.find_one (lines 234-241)
validate_find_password(p) ==
    LET password_doc == find_password(passwords, lower(conc[p].password), now)
    IN /\ conc[p].pc = "find_password"
       /\ conc' = [conc EXCEPT ![p] =
                     IF password_doc = NoDoc THEN validated(@, "denied")
                     ELSE [@ EXCEPT !.pc = "find_usage", !.password_doc = password_doc]]
       /\ UNCHANGED <<now, limiterVars, storeVars, clientVars, reqVars, probeVars, moderationVars, ledgerVars, incs>>

\* await usage_tracking_collection.find_one (lines 246-249), and the limit
\* check when a document was found (lines 261-269).
validate_find_usage(p) ==
    LET usage_doc == find_usage(usage_tracking,
                                validate_usage_key(USER_u, conc[p].password))
    IN /\ conc[p].pc = "find_usage"
       /\ conc' = [conc EXCEPT ![p] =
                     IF usage_doc = NoDoc THEN [@ EXCEPT !.pc = "insert_usage"]
                     ELSE validated(@, check_limits(usage_doc, @.password_doc,
                                                    @.usage_type))]
       /\ UNCHANGED <<now, limiterVars, storeVars, clientVars, reqVars, probeVars, moderationVars, ledgerVars, incs>>

\* await usage_tracking_collection.insert_one (lines 251-259), and the limit
\* check on the zero counters (lines 261-269).
validate_insert_usage(p) ==
    /\ conc[p].pc = "insert_usage"
    /\ usage_tracking' =
          [usage_tracking EXCEPT ![validate_usage_key(USER_u, conc[p].password)] =
              Append(@, new_usage_doc(USER_u, conc[p].password))]
    /\ conc' = [conc EXCEPT ![p] =
                  validated(@, check_limits([image_count |-> 0, suggestion_count |-> 0],
                                            @.password_doc, @.usage_type))]
    /\ UNCHANGED <<now, limiterVars, passwords, clientVars, reqVars, probeVars, moderationVars, ledgerVars, incs>>

\* The handler completed its operation: await increment_usage (lines 802, 869,
\* 1030, 1080).
conc_increment(p) ==
    /\ conc[p].pc = "handler"
    /\ CounterBelowMax(usage_tracking, conc[p].password, USER_u, conc[p].usage_type)
    /\ usage_tracking' = increment_usage(usage_tracking, conc[p].password, USER_u,
                                         conc[p].usage_type)
    /\ incs' = [incs EXCEPT ![conc[p].usage_type] = @ + 1]
    /\ conc' = [conc EXCEPT ![p] =
                  conc_done(@, \E q \in Procs \ {p} :
                                  /\ conc[q].pc = "handler"
                                  /\ conc[q].usage_type = conc[p].usage_type)]
    /\ UNCHANGED <<now, limiterVars, passwords, clientVars, reqVars, probeVars, moderationVars, ledgerVars>>

\* The handler failed after validation: no increment.
conc_abandon(p) ==
    /\ conc[p].pc = "handler"
    /\ conc' = [conc EXCEPT ![p] = conc_done(@, FALSE)]
    /\ UNCHANGED <<now, limiterVars, storeVars, clientVars, reqVars, probeVars, moderationVars, ledgerVars, incs>>

Init ==
    /\ now = 0
    /\ request_timestamps = <<>>
    /\ rate_limit_lock = NoCaller
    /\ rl = [p \in Callers |-> RlIdle]
    /\ admitted = <<>>
    /\ last_release = FALSE
    /\ passwords = {}
    /\ usage_tracking = [key \in UsageKeys |-> <<>>]
    /\ pending = NoDoc
    /\ pairs = [k \in Users \X {lower(p) : p \in OrdinaryInputs \cup ShareInputs}
                       \X UsageTypes |-> 0]
    /\ req = ReqIdle
    /\ images = {}
    /\ prev = NoDoc
    /\ conc = [p \in Procs |-> ConcIdle]
    /\ incs = [usage_type \in UsageTypes |-> 0]
    /\ probe = NoDoc
    /\ moderation_failures = <<>>
    /\ moderation_guidelines = NoDoc
    /\ token_usage = <<>>
    /\ report = NoDoc

NextRL ==
    \/ \E p \in Callers : rl_call(p)
    \/ \E p \in Callers : rl_acquire(p)
    \/ \E p \in Callers : rl_evict(p)
    \/ \E p \in Callers : rl_check(p)
    \/ \E p \in Callers : rl_append(p)
    \/ \E d \in TickStepsRL : Tick(d, MaxNowRL)

SpecRL == Init /\ [][NextRL]_vars

NextStore ==
    \/ \E password \in CreateInputs, valid_hours \in ValidHoursInputs,
          image_limit \in ImageLimitInputs, suggestion_limit \in SuggestionLimitInputs,
          bypass_watchdog \in BypassInputs, image_model \in ImageModelInputs :
            create_password(password, valid_hours, image_limit, suggestion_limit,
                            bypass_watchdog, image_model)
    \/ \E password \in ChangeInputs,
          image_limit \in UpdateImageLimitInputs, valid_hours \in UpdateValidHoursInputs :
            update_password(password, image_limit, {}, valid_hours, {})
    \/ \E password \in ChangeInputs : delete_password(password)
    \/ \E password \in ClientInputs, user_guid \in ClientUsers, usage_type \in UsageTypes :
            call_validate_password(password, user_guid, usage_type)
    \/ call_increment_usage
    \/ abandon_operation
    \/ Tick(HOUR, MaxHours * HOUR)

SpecStore == Init /\ [][NextStore]_vars

\* The administrator's endpoints with every field of their requests, and a
\* client that consumes image operations with an ordinary code.
NextAdmin ==
    \/ \E password \in CreateInputs, valid_hours \in ValidHoursInputs,
          image_limit \in ImageLimitInputs, suggestion_limit \in SuggestionLimitInputs,
          bypass_watchdog \in BypassInputs, image_model \in ImageModelInputs :
            create_password(password, valid_hours, image_limit, suggestion_limit,
                            bypass_watchdog, image_model)
    \/ \E password \in ChangeInputs, image_limit \in UpdateImageLimitInputs,
          suggestion_limit \in UpdateSuggestionLimitInputs,
          valid_hours \in UpdateValidHoursInputs, image_model \in UpdateImageModelInputs :
            update_password(password, image_limit, suggestion_limit, valid_hours,
                            image_model)
    \/ \E password \in ChangeInputs : delete_password(password)
    \/ \E password \in OrdinaryInputs, user_guid \in ClientUsers :
            call_validate_password(password, user_guid, "image")
    \/ call_increment_usage
    \/ abandon_operation
    \/ Tick(HOUR, MaxHours * HOUR)

SpecAdmin == Init /\ [][NextAdmin]_vars

\* The validity probe called between the operations of the administrator and
\* of a client that consumes image operations.
NextProbe ==
    \/ \E password \in CreateInputs, valid_hours \in ValidHoursInputs,
          image_limit \in ImageLimitInputs, suggestion_limit \in SuggestionLimitInputs,
          bypass_watchdog \in BypassInputs, image_model \in ImageModelInputs :
            create_password(password, valid_hours, image_limit, suggestion_limit,
                            bypass_watchdog, image_model)
    \/ \E password \in ChangeInputs : delete_password(password)
    \/ \E password \in PasswordInputs : validate_password_endpoint(password)
    \/ \E password \in ClientInputs, user_guid \in ClientUsers :
            call_validate_password(password, user_guid, "image")
    \/ call_increment_usage
    \/ abandon_operation
    \/ Tick(HOUR, MaxHours * HOUR)

SpecProbe == Init /\ [][NextProbe]_vars

NextReq ==
    \/ \E password \in ReqCreateInputs, valid_hours \in ValidHoursInputs,
          image_limit \in ImageLimitInputs, suggestion_limit \in SuggestionLimitInputs,
          bypass_watchdog \in BOOLEAN, image_model \in ReqImageModelInputs :
            create_password(password, valid_hours, image_limit, suggestion_limit,
                            bypass_watchdog, image_model)
    \/ \E kind \in Kinds, password \in ReqPasswords, user_found \in BOOLEAN :
            request(kind, password, USER_u, user_found)
    \/ handler_validate
    \/ \E image \in [description_empty : BOOLEAN] \cup {NoDoc} : handler_find_image(image)
    \/ \E stage \in Stages : helper_check_rate_limit(stage)
    \/ moderate_content_get_guidelines
    \/ \E outcome \in {"error", "malformed", "rejected", "approved"} :
            moderate_content(outcome, NoUsage, TRUE)
    \/ \E outcome \in ImageOutcomes : generate_image_with_gemini(outcome, NoUsage, TRUE)
    \/ \E outcome \in ImageOutcomes : generate_image_with_imagen(outcome, NoUsage, FALSE)
    \/ \E outcome \in ImageOutcomes : edit_image_with_gemini(outcome, NoUsage, TRUE)
    \/ \E outcome \in {"error", "malformed", "empty", "text"} :
            describe_image_with_gemini(outcome, NoUsage, TRUE)
    \/ \E outcome \in {"error", "malformed", "suggestions"} :
            suggest_edits_with_gemini(outcome, NoUsage, TRUE)
    \/ \E outcome \in {"error", "malformed", "missing_key", "suggestions"} :
            suggest_prompts_call(outcome, NoUsage, TRUE)
    \/ handler_write_file
    \/ handler_insert_image
    \/ handler_update_description
    \/ handler_increment
    \/ \E d \in TickStepsReq : Tick(d, MaxNowReq)

SpecReq == Init /\ [][NextReq]_vars

\* Generate and edit requests made one after the other with one ordinary code.
NextOutcome ==
    \/ \E password \in ReqCreateInputs, valid_hours \in ValidHoursInputs,
          image_limit \in ImageLimitInputs, suggestion_limit \in SuggestionLimitInputs :
            create_password(password, valid_hours, image_limit, suggestion_limit,
                            FALSE, "gemini")
    \/ \E kind \in {"generate", "edit"}, password \in ReqCreateInputs :
            request_after_outcome(kind, password, USER_u, TRUE)
    \/ handler_validate
    \/ \E image \in [description_empty : BOOLEAN] \cup {NoDoc} : handler_find_image(image)
    \/ \E stage \in Stages : helper_check_rate_limit(stage)
    \/ moderate_content_get_guidelines
    \/ \E outcome \in {"error", "malformed", "rejected", "approved"} :
            moderate_content(outcome, NoUsage, TRUE)
    \/ \E outcome \in ImageOutcomes : generate_image_with_gemini(outcome, NoUsage, TRUE)
    \/ \E outcome \in ImageOutcomes : edit_image_with_gemini(outcome, NoUsage, TRUE)
    \/ \E outcome \in {"error", "text"} : describe_image_with_gemini(outcome, NoUsage, TRUE)
    \/ handler_write_file
    \/ handler_insert_image
    \/ handler_increment
    \/ \E d \in TickStepsReq : Tick(d, MaxNowReq)

SpecOutcome == Init /\ [][NextOutcome]_vars

\* Generate and edit requests screened by moderate_content while the
\* administrator sets and resets the guidelines.
NextScreen ==
    \/ \E password \in ReqCreateInputs, valid_hours \in ValidHoursInputs,
          image_limit \in ImageLimitInputs, suggestion_limit \in SuggestionLimitInputs,
          bypass_watchdog \in BOOLEAN :
            create_password(password, valid_hours, image_limit, suggestion_limit,
                            bypass_watchdog, "gemini")
    \/ \E kind \in {"generate", "edit"}, password \in ReqCreateInputs :
            request(kind, password, USER_u, TRUE)
    \/ handler_validate
    \/ \E image \in [description_empty : BOOLEAN] \cup {NoDoc} : handler_find_image(image)
    \/ \E stage \in Stages : helper_check_rate_limit(stage)
    \/ moderate_content_get_guidelines
    \/ \E outcome \in {"error", "malformed", "rejected", "approved"} :
            moderate_content(outcome, NoUsage, TRUE)
    \/ \E outcome \in ImageOutcomes : generate_image_with_gemini(outcome, NoUsage, TRUE)
    \/ \E outcome \in ImageOutcomes : edit_image_with_gemini(outcome, NoUsage, TRUE)
    \/ \E outcome \in {"error", "text"} : describe_image_with_gemini(outcome, NoUsage, TRUE)
    \/ handler_write_file
    \/ handler_insert_image
    \/ handler_increment
    \/ \E guidelines \in GuidelineInputs : update_guidelines(guidelines)
    \/ reset_guidelines
    \/ \E d \in TickStepsReq : Tick(d, MaxNowReq)

SpecScreen == Init /\ [][NextScreen]_vars

\* Two users consume with two ordinary credentials.
NextShare ==
    \/ \E password \in ShareInputs, valid_hours \in ValidHoursInputs,
          image_limit \in ImageLimitInputs, suggestion_limit \in SuggestionLimitInputs,
          bypass_watchdog \in BypassInputs :
            create_password(password, valid_hours, image_limit, suggestion_limit,
                            bypass_watchdog, "gemini")
    \/ \E password \in ShareInputs \cup {ADMIN_PASSWORD}, user_guid \in Users,
          usage_type \in UsageTypes :
            call_validate_password(password, user_guid, usage_type)
    \/ call_increment_usage
    \/ abandon_operation

SpecShare == Init /\ [][NextShare]_vars

\* track_token_usage called with every input, and the administrator's report.
NextCost ==
    \/ \E model \in CostModels, usage \in CostUsages, images_generated \in CostImages,
          password \in CostPasswords, insert_one_ok \in BOOLEAN :
            call_track_token_usage("image_generation", model,
                                   usage.prompt_token_count,
                                   usage.candidates_token_count,
                                   usage.thoughts_token_count,
                                   usage.total_token_count,
                                   images_generated, password, insert_one_ok, MaxCalls)
    \/ get_token_usage

SpecCost == Init /\ [][NextCost]_vars

\* The administrator's report over the records of calls on two models.
NextReport ==
    \/ \E model \in ReportModels, images_generated \in ReportImages :
            call_track_token_usage("image_generation", model,
                                   USAGE_TOKENS.prompt_token_count,
                                   USAGE_TOKENS.candidates_token_count,
                                   USAGE_TOKENS.thoughts_token_count,
                                   USAGE_TOKENS.total_token_count,
                                   images_generated, {}, TRUE, MaxLedger)
    \/ get_token_usage

SpecReport == Init /\ [][NextReport]_vars

\* Inputs of SpecLedger: a code that lowercases to "admin", and what the
\* provider and the datastore do with a call.
LedgerCreateInputs == {PW_Admin}
LedgerPasswords == {PW_Admin, ADMIN_PASSWORD}
LedgerUsages == {NoUsage, USAGE_TOKENS}

\* Generate requests within one window of the limiter, whose provider calls
\* are recorded in token_usage_collection.
NextLedger ==
    \/ \E password \in LedgerCreateInputs, valid_hours \in ValidHoursInputs,
          image_limit \in ImageLimitInputs, suggestion_limit \in SuggestionLimitInputs,
          bypass_watchdog \in BOOLEAN, image_model \in ReqImageModelInputs :
            create_password(password, valid_hours, image_limit, suggestion_limit,
                            bypass_watchdog, image_model)
    \/ \E password \in LedgerPasswords : request("generate", password, USER_u, TRUE)
    \/ handler_validate
    \/ \E stage \in Stages : helper_check_rate_limit(stage)
    \/ moderate_content_get_guidelines
    \/ \E outcome \in {"error", "malformed", "rejected", "approved"},
          usage \in LedgerUsages, insert_one_ok \in BOOLEAN :
            moderate_content(outcome, usage, insert_one_ok)
    \/ \E outcome \in ImageOutcomes, usage \in LedgerUsages, insert_one_ok \in BOOLEAN :
            generate_image_with_gemini(outcome, usage, insert_one_ok)
    \/ \E outcome \in ImageOutcomes, usage \in LedgerUsages, insert_one_ok \in BOOLEAN :
            generate_image_with_imagen(outcome, usage, insert_one_ok)
    \/ \E outcome \in {"error", "text"}, usage \in LedgerUsages,
          insert_one_ok \in BOOLEAN :
            describe_image_with_gemini(outcome, usage, insert_one_ok)
    \/ handler_write_file
    \/ handler_insert_image
    \/ handler_increment

SpecLedger == Init /\ [][NextLedger]_vars

NextConc ==
    \/ \E password \in ReqCreateInputs, valid_hours \in ValidHoursInputs,
          image_limit \in ImageLimitInputs, suggestion_limit \in SuggestionLimitInputs :
            create_password(password, valid_hours, image_limit, suggestion_limit,
                            FALSE, "gemini")
    \/ \E p \in Procs, password \in ConcPasswords, usage_type \in ConcUsageTypes :
            conc_request(p, password, usage_type)
    \/ \E p \in Procs : validate_find_password(p)
    \/ \E p \in Procs : validate_find_usage(p)
    \/ \E p \in Procs : validate_insert_usage(p)
    \/ \E p \in Procs : conc_increment(p)
    \/ \E p \in Procs : conc_abandon(p)

SpecConc == Init /\ [][NextConc]_vars

(***************************************************************************)
(* Claims about the rate limiter                                           *)
(***************************************************************************)
Returned(p) == rl[p].pc = "returned"

\* C6: when GEMINI_RPM_LIMIT admitted timestamps lie within the last WINDOW
\* seconds at the time a call reads the clock, the call returns False and the
\* deque it leaves is the deque it found: no entry was added.
C6_RejectWhenFull ==
    \A p \in Callers :
        (Returned(p) /\ InWindow(rl[p].pre, rl[p].current_time) >= GEMINI_RPM_LIMIT)
            => (rl[p].result = FALSE /\ rl[p].post = rl[p].pre)

C6_Witness ==
    \E p \in Callers :
        /\ Returned(p)
        /\ InWindow(rl[p].pre, rl[p].current_time) >= GEMINI_RPM_LIMIT
        /\ rl[p].result = FALSE

\* C7: a call that finds a full deque of which exactly the oldest entry is more
\* than WINDOW seconds old returns True and leaves the deque full again; the
\* call after it, made while those entries are still in the window, returns
\* False; an oldest entry that is exactly WINDOW seconds old is not evicted and
\* the call returns False.
C7_ReleaseExactlyOne ==
    \A p \in Callers :
        Returned(p) =>
            /\ OnlyOldestAged(rl[p].pre, rl[p].current_time)
                   => /\ rl[p].result = TRUE
                      /\ rl[p].post = Append(Tail(rl[p].pre), rl[p].current_time)
            /\ (rl[p].after_release
                   /\ InWindow(rl[p].pre, rl[p].current_time) = GEMINI_RPM_LIMIT)
                   => rl[p].result = FALSE
            /\ (Len(rl[p].pre) = GEMINI_RPM_LIMIT
                   /\ rl[p].pre[1] = rl[p].current_time - WINDOW)
                   => (rl[p].result = FALSE /\ rl[p].post = rl[p].pre)

\* A call was rejected right after a call that took the one released slot.
C7_Witness ==
    \E p \in Callers :
        /\ Returned(p)
        /\ rl[p].after_release
        /\ InWindow(rl[p].pre, rl[p].current_time) = GEMINI_RPM_LIMIT
        /\ rl[p].result = FALSE

\* Number of admitted timestamps in the closed window of WINDOW seconds that
\* starts at t.
AdmittedFrom(t) ==
    Cardinality({j \in 1..Len(admitted) : admitted[j] >= t /\ admitted[j] <= t + WINDOW})

\* C8: under every interleaving of concurrent calls, no window of WINDOW seconds
\* holds more than GEMINI_RPM_LIMIT admitted timestamps, and the deque never
\* holds more than GEMINI_RPM_LIMIT entries.
C8_NoOverAdmission ==
    /\ Len(request_timestamps) <= GEMINI_RPM_LIMIT
    /\ \A i \in 1..Len(admitted) : AdmittedFrom(admitted[i]) <= GEMINI_RPM_LIMIT

\* One caller is inside the locked section with a full deque while another
\* waits for the lock, after more than GEMINI_RPM_LIMIT calls were admitted.
C8_Witness ==
    \E p, q \in Callers :
        /\ p # q
        /\ rl[p].pc = "check"
        /\ rl[q].pc = "acquire"
        /\ Len(request_timestamps) = GEMINI_RPM_LIMIT
        /\ Len(admitted) > GEMINI_RPM_LIMIT

(***************************************************************************)
(* Claims about the credential store and the usage ledger (SpecStore)      *)
(***************************************************************************)
\* The stored credential a code addresses, expired or not.
Stored(password) == find_one_password(passwords, lower(password))

\* What validate_password would return in the current state.
ValidateNow(password, user_guid, usage_type) ==
    validate_result(passwords, usage_tracking, now, password, user_guid, usage_type)

\* C1: once a user has completed as many validate+increment pairs of a
\* category with a stored, unexpired, non-privileged credential as the
\* credential's quota for that category, validate_password returns
\* is_valid = False for that user, credential and category, however the client
\* spells the code.
C1_QuotaEnforced ==
    \A password \in OrdinaryInputs, user_guid \in ClientUsers, usage_type \in UsageTypes :
        LET doc == find_password(passwords, lower(password), now)
        IN (/\ doc # NoDoc
            /\ pairs[<<user_guid, lower(password), usage_type>>] >= doc[limit_field(usage_type)])
               => ValidateNow(password, user_guid, usage_type).is_valid = FALSE

\* C2: in every reachable state validate_password returns the same tuple for
\* two spellings of one non-privileged code.
C2_CaseInsensitive ==
    \A p1, p2 \in OrdinaryInputs, user_guid \in ClientUsers, usage_type \in UsageTypes :
        lower(p1) = lower(p2)
            => ValidateNow(p1, user_guid, usage_type) = ValidateNow(p2, user_guid, usage_type)

\* A code addresses a stored credential whose expires_at is not after now.
StoredExpired(password) ==
    /\ Stored(password) # NoDoc
    /\ Stored(password).expires_at <= now

\* validate_password and the validity probe both refuse the code.
Refused(password) ==
    /\ \A user_guid \in ClientUsers, usage_type \in UsageTypes :
          ValidateNow(password, user_guid, usage_type).is_valid = FALSE
    /\ validate_password_endpoint_result(passwords, now, password).valid = FALSE

\* C3 as stated: for every stored credential with expires_at <= now, validate
\* and check refuse its code.
C3_ExpiredRefused_Original ==
    \A password \in PasswordInputs : StoredExpired(password) => Refused(password)

\* C3 amended: for every stored credential with expires_at <= now, validate and
\* check refuse every spelling of its code other than the operator secret
\* itself, whatever the user's counters; the credential is still stored.
C3_ExpiredRefused ==
    \A password \in PasswordInputs \ {ADMIN_PASSWORD} :
        StoredExpired(password) => Refused(password)

\* An expired credential is in storage with a usage record below both quotas.
C3_Witness ==
    \E password \in OrdinaryInputs, user_guid \in ClientUsers :
        LET found == find_usage(usage_tracking, validate_usage_key(user_guid, password))
        IN /\ StoredExpired(password)
           /\ found # NoDoc
           /\ found.image_count < Stored(password).image_limit
           /\ found.suggestion_count < Stored(password).suggestion_limit

\* The counter of a category in the usage record increment_usage addresses,
\* 0 when the record or the field does not exist.
Counter(user_guid, password, usage_type) ==
    LET found == find_usage(usage_tracking, increment_usage_key(user_guid, password))
    IN IF found = NoDoc THEN 0
       ELSE IF count_field(usage_type) \notin DOMAIN found THEN 0
       ELSE found[count_field(usage_type)]

\* C4: with no operation in flight, for every user, stored non-privileged
\* credential and category, the counter of the usage record equals the number
\* of consuming operations the user completed with that credential.
C4_ExactMetering ==
    \A password \in OrdinaryInputs, user_guid \in ClientUsers, usage_type \in UsageTypes :
        (pending = NoDoc /\ Stored(password) # NoDoc)
            => Counter(user_guid, password, usage_type)
                 = pairs[<<user_guid, lower(password), usage_type>>]

\* A step in which validate_password or increment_usage runs with the operator
\* secret.
PrivilegedCall ==
    \/ \E user_guid \in ClientUsers, usage_type \in UsageTypes :
          call_validate_password(ADMIN_PASSWORD, user_guid, usage_type)
    \/ /\ IF pending = NoDoc THEN FALSE ELSE is_admin(pending.password)
       /\ call_increment_usage

\* C5: a call of validate_password or increment_usage with the privileged code
\* creates no usage record and modifies none.
C5_PrivilegedUnmetered == [][PrivilegedCall => usage_tracking' = usage_tracking]_vars

\* A privileged operation has passed validation while usage records of
\* ordinary codes exist.
C5_Witness ==
    /\ IF pending = NoDoc THEN FALSE ELSE is_admin(pending.password)
    /\ \E key \in UsageKeys : usage_tracking[key] # <<>>

(***************************************************************************)
(* Claims about the request handlers (SpecReq)                             *)
(***************************************************************************)
\* C9: a helper is about to issue its provider call only after its own
\* check_rate_limit, the last one of the request, returned True; and no helper
\* whose check_rate_limit returned False during a request has issued its
\* provider call in that request.
C9_AdmitBeforeProviderCall ==
    /\ req.pc = "call" => (req.admit = TRUE /\ req.admit_stage = req.stage)
    /\ req.called \cap req.refused = {}

\* A helper is about to call the provider after another helper of the same
\* request was refused by the limiter and made no call.
C9_Witness ==
    /\ req.pc = "call"
    /\ req.refused # {}
    /\ req.stage \notin req.refused

\* C10: a finished request in which a helper's check_rate_limit returned False
\* was answered with the rate-limited status 429.
C10_RateLimitedOutcome ==
    (req.pc = "done" /\ req.refused # {}) => req.response.status = 429

\* The image generation or edit helper of the request was entered, or a later
\* step of the handler ran.
GenerationStages == {"gemini", "imagen", "edit"}
PastModeration ==
    \/ req.stage \in GenerationStages \cup {"describe"}
    \/ req.called \cap (GenerationStages \cup {"describe"}) # {}
    \/ req.refused \cap (GenerationStages \cup {"describe"}) # {}
    \/ req.pc \in {"write_file", "insert_image", "increment"}
    \/ req.file_written \/ req.image_inserted \/ req.increments > 0

\* C11: when the judgment call of moderate_content failed (provider error,
\* answer that is not the JSON asked for, refusal by the rate limiter),
\* moderate_content returned False and the request ended there: not with a
\* success, with no generation or edit step, no file, no record, no increment.
C11_ModerationFailsClosed ==
    req.moderation \in {"error", "malformed", "rate_limited"}
        => /\ req.is_appropriate = FALSE
           /\ req.pc = "done"
           /\ req.response.status # 200
           /\ ~PastModeration

\* A request ended because the limiter refused the judgment call.
C11_Witness ==
    /\ req.pc = "done"
    /\ req.moderation = "rate_limited"
    /\ req.kind = "edit"

\* C12: in a generate or edit request validated without the bypass flag (the
\* privileged code included), the generation or edit helper is entered, and
\* every later step runs, only after moderate_content returned True; when
\* moderate_content returned False the request is over with no generation
\* step, no file written, no record and no usage increment.
C12_ModerationGatesGeneration ==
    req.kind \in {"generate", "edit"}
        => /\ (~req.bypass_watchdog /\ PastModeration)
                  => (req.moderation = "approved" /\ req.is_appropriate = TRUE)
           /\ (req.moderation # "none" /\ req.is_appropriate = FALSE)
                  => (req.pc = "done" /\ ~PastModeration)

\* A request made with the privileged code is about to call the generation
\* provider after its prompt was approved.
C12_Witness ==
    /\ req.password = ADMIN_PASSWORD
    /\ req.pc = "call"
    /\ req.stage \in GenerationStages
    /\ req.moderation = "approved"

\* The usage keys clients can have built for a credential: every user with
\* every spelling of its code.
CredentialKeys(password) ==
    {usage_key(u, p) : u \in Users, p \in {q \in PasswordInputs : lower(q) = lower(password)}}

C14_IncrementPlacement ==
    req.kind \in {"generate", "edit"}
        => /\ req.increments <= 1
           /\ (req.increments > 0 \/ req.pc = "increment")
                  => (req.file_written /\ req.image_inserted)
           /\ (req.pc = "done" /\ req.response.status # 200) => req.increments = 0

\* An edit request ended after its one increment.
C14_Witness ==
    /\ req.kind = "edit"
    /\ req.pc = "done"
    /\ req.increments = 1

\* The suggestion helper of the request made its provider call or was refused
\* by the limiter, and the request holds no usable list from the provider.
SuggestionStages == {"suggest_edits", "suggest_prompts"}
SuggestionFailed ==
    /\ req.kind \in {"suggest_edits", "suggest_prompts"}
    /\ (req.called \cup req.refused) \cap SuggestionStages # {}
    /\ req.pc \in {"increment", "done"}
    /\ req.suggestions # "model"

\* C15: a suggest-edits or suggest-prompts request whose suggestion call
\* failed, gave an unusable answer or was refused by the limiter makes no
\* usage increment.
C15_NoIncrementOnFailure == SuggestionFailed => req.increments = 0

\* C16: a request whose validate_password returned is_valid = False is over and
\* was not answered with a success; it made no check_rate_limit call, no
\* provider call and no usage increment.
C16_DeniedIsRejected ==
    req.validated = "denied"
        => /\ req.pc = "done"
           /\ req.response.status # 200
           /\ req.admit_stage = "none"
           /\ req.called = {} /\ req.refused = {}
           /\ req.increments = 0

\* The error outcomes of the taxonomy a generate or edit request can end in.
Causes == {"unauthorized", "quota_exceeded", "rate_limited", "moderation_rejected",
           "provider_failure"}

\* What the caller can tell two responses apart by.
Seen(response) == <<response.status, response.detail>>

\* C17: two generate requests, or two edit requests, that ended in different
\* error outcomes were answered with a different status or a different detail.
C17_DistinguishableOutcomes ==
    (/\ req.pc = "done"
     /\ req.cause \in Causes
     /\ prev # NoDoc)
        => ((prev.kind = req.kind /\ prev.cause # req.cause)
               => Seen(prev.response) # Seen(req.response))

(***************************************************************************)
(* Claims about concurrent consuming requests (SpecConc)                   *)
(***************************************************************************)
\* C18: with at most MaxProcs consuming requests of one user in flight at a
\* time, the counter of a category in the usage record of a stored credential
\* never exceeds the credential's quota for that category by MaxProcs or more.
C18_BoundedOverConsumption ==
    \A password \in ReqCreateInputs, usage_type \in UsageTypes :
        Stored(password) # NoDoc
            => Counter(USER_u, password, usage_type)
                  <= Stored(password)[limit_field(usage_type)] + MaxProcs - 1

\* C19: under every interleaving of the concurrent requests, the counter of a
\* category in the usage record increment_usage addresses equals the number of
\* increment_usage calls completed for it, whether the record was inserted by
\* validate_password or created by the first increment.
C19_NoLostUpdates ==
    \A usage_type \in UsageTypes : Counter(USER_u, PW_ab, usage_type) = incs[usage_type]

\* Two increments of one counter were completed, the first while the other
\* request was about to make its own, on a record that the first increment
\* created.
C19_Witness ==
    \E p \in Procs :
        LET found == find_usage(usage_tracking, increment_usage_key(USER_u, PW_ab))
        IN /\ conc[p].raced
           /\ \E usage_type \in ConcUsageTypes : incs[usage_type] >= 2
           /\ found # NoDoc
           /\ "password" \notin DOMAIN found

\* C20: in every reachable state at most one usage record is stored under a
\* usage key, and every stored record holds both counters.
C20_UsageRecordUnique ==
    \A key \in UsageKeys :
        /\ Len(usage_tracking[key]) <= 1
        /\ \A i \in 1..Len(usage_tracking[key]) :
              {"image_count", "suggestion_count"} \subseteq DOMAIN usage_tracking[key][i]

\* The main provider call of a generate or edit request failed: its helper's
\* check_rate_limit refused, or the call was issued and raised or answered
\* without an image.
MainCallFailed ==
    /\ req.kind \in {"generate", "edit"}
    /\ \/ req.refused \cap GenerationStages # {}
       \/ /\ req.cause = "provider_failure"
          /\ req.called \cap GenerationStages # {}

\* C30: a generate or edit request whose main provider call failed is over
\* with an error response, and it wrote no image file, inserted no image
\* record and made no call of increment_usage.
C30_ProviderFailureAborts ==
    MainCallFailed
       => /\ req.pc = "done"
          /\ req.response.status \in {429, 500}
          /\ ~req.file_written
          /\ ~req.image_inserted
          /\ req.increments = 0

\* The provider call of an edit request failed while an image and a usage
\* record with a counted operation are stored.
C30_Witness ==
    /\ MainCallFailed
    /\ req.kind = "edit"
    /\ req.cause = "provider_failure"
    /\ images # {}
    /\ Counter(req.user_guid, req.password, "image") > 0

\* C31: a generate or edit request whose describe_image_with_gemini was
\* refused by the limiter, failed in its provider call or got an answer that
\* does not parse goes on with the fallback description; when it is over it
\* has answered 200 with the image, its image record holds the fallback text
\* and it has called increment_usage exactly once.
C31_DescriptionFallback ==
    (/\ req.kind \in {"generate", "edit"}
     /\ req.described \in {"rate_limited", "error", "malformed"})
       => /\ req.description = FALLBACK_DESCRIPTION
          /\ req.pc \in {"insert_image", "increment", "done"}
          /\ req.increments <= 1
          /\ req.pc = "done"
               => /\ req.response = Response(200, "", "image")
                  /\ req.image_inserted
                  /\ req.image_description = FALLBACK_DESCRIPTION
                  /\ req.increments = 1

\* An edit request is over whose description step was refused by the limiter.
C31_Witness ==
    /\ req.kind = "edit"
    /\ req.pc = "done"
    /\ req.described = "rate_limited"
    /\ req.increments = 1

(***************************************************************************)
(* Claims about the administrative endpoints (SpecAdmin)                   *)
(***************************************************************************)
\* PasswordUpdate with valid_hours supplied among the inputs of the model.
SuppliedHours == UpdateValidHoursInputs \ {{}}

\* A step that renews a stored credential: create_password on a code that is
\* stored, or update_password with valid_hours supplied.
Renewal(password) ==
    /\ Stored(password) # NoDoc
    /\ \/ \E valid_hours \in ValidHoursInputs, image_limit \in ImageLimitInputs,
             suggestion_limit \in SuggestionLimitInputs,
             bypass_watchdog \in BypassInputs, image_model \in ImageModelInputs :
               create_password(password, valid_hours, image_limit, suggestion_limit,
                               bypass_watchdog, image_model)
       \/ \E image_limit \in UpdateImageLimitInputs,
             suggestion_limit \in UpdateSuggestionLimitInputs,
             valid_hours \in SuppliedHours, image_model \in UpdateImageModelInputs :
               update_password(password, image_limit, suggestion_limit, valid_hours,
                               image_model)

\* C21: every create_password on a stored code and every update_password that
\* supplies valid_hours leaves the credential with an expires_at strictly
\* greater than the one it had before.
C21_ExpiryStrictlyIncreases ==
    [][\A password \in CreateInputs :
          Renewal(password)
             => find_one_password(passwords', lower(password)).expires_at
                  > Stored(password).expires_at]_vars

\* C22: in every state validate_password answers the operator secret, spelled
\* exactly, with (True, False, None); a spelling that differs only in letter
\* case goes through the store like any code: refused when no unexpired
\* credential is stored for it, and allowed only with that credential's
\* document and a counter below its limit.
C22_PrivilegedValidation ==
    \A user_guid \in ClientUsers, usage_type \in UsageTypes :
        /\ LET result == ValidateNow(ADMIN_PASSWORD, user_guid, usage_type)
           IN /\ result.is_valid = TRUE
              /\ result.bypass_watchdog = FALSE
              /\ result.password_doc = NoDoc
              /\ result.raised = FALSE
        /\ \A password \in PasswordInputs \ {ADMIN_PASSWORD} :
              lower(password) = lower(ADMIN_PASSWORD)
                 => LET result == ValidateNow(password, user_guid, usage_type)
                        password_doc == find_password(passwords, lower(password), now)
                        found == find_usage(usage_tracking,
                                            validate_usage_key(user_guid, password))
                    IN /\ password_doc = NoDoc => result.is_valid = FALSE
                       /\ result.is_valid
                            => /\ result.password_doc = password_doc
                               /\ result.bypass_watchdog = password_doc.bypass_watchdog
                               /\ found # NoDoc
                                    => found[count_field(usage_type)]
                                         < password_doc[limit_field(usage_type)]

\* An operation validated with the operator secret while a credential whose
\* code spells the secret in lower case is stored and has expired, and an
\* ordinary usage record has reached a quota.
C22_Witness ==
    /\ IF pending = NoDoc THEN FALSE ELSE is_admin(pending.password)
    /\ StoredExpired(ADMIN_PASSWORD)
    /\ \E password \in OrdinaryInputs, user_guid \in ClientUsers, usage_type \in UsageTypes :
          /\ Stored(password) # NoDoc
          /\ Counter(user_guid, password, usage_type)
               >= Stored(password)[limit_field(usage_type)]

\* C25: after create_password(code, config) exactly one credential is stored
\* for lower(code); its configuration fields are the supplied ones, with an
\* image_model other than "gemini" and "imagen" stored as "gemini"; its
\* expires_at is now + valid_hours; and no other credential has changed,
\* whether or not a credential with that code was stored before.
C25_UpsertOverwrites ==
    [][\A password \in CreateInputs, valid_hours \in ValidHoursInputs,
          image_limit \in ImageLimitInputs, suggestion_limit \in SuggestionLimitInputs,
          bypass_watchdog \in BypassInputs, image_model \in ImageModelInputs :
          create_password(password, valid_hours, image_limit, suggestion_limit,
                          bypass_watchdog, image_model)
             => LET hits == {d \in passwords' : d.password = lower(password)}
                IN /\ Cardinality(hits) = 1
                   /\ \A d \in hits :
                         /\ d.valid_hours = valid_hours
                         /\ d.image_limit = image_limit
                         /\ d.suggestion_limit = suggestion_limit
                         /\ d.bypass_watchdog = bypass_watchdog
                         /\ d.image_model = (IF image_model = "imagen" THEN "imagen"
                                             ELSE "gemini")
                         /\ d.expires_at = now + valid_hours * HOUR
                   /\ {d \in passwords' : d.password # lower(password)}
                        = {d \in passwords : d.password # lower(password)}]_vars

\* A credential written by create_password at the present time, after the
\* clock has advanced, for a code with which the user has completed
\* operations, next to another stored credential.
C25_Witness ==
    \E password \in ChangeInputs, user_guid \in ClientUsers, usage_type \in UsageTypes :
        /\ Stored(password) # NoDoc
        /\ now > 0
        /\ Stored(password).created_at = now
        /\ pairs[<<user_guid, lower(password), usage_type>>] > 0
        /\ \E d \in passwords : d.password # lower(password)

\* C26: after update_password on a stored code every field that was not
\* supplied has the value it had; expires_at changes only when valid_hours is
\* supplied and is then now + valid_hours; bypass_watchdog, created_at, the
\* code, the other credentials and all usage records are as they were.
C26_PatchOnlySupplied ==
    [][\A password \in ChangeInputs, image_limit \in UpdateImageLimitInputs,
          suggestion_limit \in UpdateSuggestionLimitInputs,
          valid_hours \in UpdateValidHoursInputs, image_model \in UpdateImageModelInputs :
          (/\ update_password(password, image_limit, suggestion_limit, valid_hours,
                              image_model)
           /\ Stored(password) # NoDoc)
             => LET old == Stored(password)
                    hits == {d \in passwords' : d.password = lower(password)}
                IN /\ Cardinality(hits) = 1
                   /\ \A new \in hits :
                         /\ image_limit = {} => new.image_limit = old.image_limit
                         /\ suggestion_limit = {}
                              => new.suggestion_limit = old.suggestion_limit
                         /\ image_model = {} => new.image_model = old.image_model
                         /\ valid_hours = {}
                              => /\ new.valid_hours = old.valid_hours
                                 /\ new.expires_at = old.expires_at
                         /\ \A h \in valid_hours : new.expires_at = now + h * HOUR
                         /\ new.bypass_watchdog = old.bypass_watchdog
                         /\ new.created_at = old.created_at
                   /\ {d \in passwords' : d.password # lower(password)}
                        = {d \in passwords : d.password # lower(password)}
                   /\ usage_tracking' = usage_tracking]_vars

\* A credential whose image limit was patched after the clock advanced, with
\* the validity it was created with, while the user has consumed with it.
C26_Witness ==
    \E password \in ChangeInputs, user_guid \in ClientUsers :
        /\ Stored(password) # NoDoc
        /\ now > Stored(password).created_at
        /\ Stored(password).image_limit \in UNION (UpdateImageLimitInputs)
        /\ Stored(password).image_limit \notin ImageLimitInputs
        /\ Stored(password).valid_hours \in ValidHoursInputs
        /\ Stored(password).expires_at
             = Stored(password).created_at + Stored(password).valid_hours * HOUR
        /\ Counter(user_guid, password, "image") > 0

\* C27: update_password and delete_password on a code with no stored
\* credential answer 404, whatever fields the patch supplies, and change no
\* credential and no usage record.
C27_NotFoundUnchanged ==
    [][\A password \in ChangeInputs :
          Stored(password) = NoDoc
             => /\ delete_password_status(passwords, password) = 404
                /\ delete_password(password)
                     => /\ passwords' = passwords
                        /\ usage_tracking' = usage_tracking
                /\ \A image_limit \in UpdateImageLimitInputs,
                      suggestion_limit \in UpdateSuggestionLimitInputs,
                      valid_hours \in UpdateValidHoursInputs,
                      image_model \in UpdateImageModelInputs :
                      /\ update_password_status(passwords, password,
                             update_fields(image_limit, suggestion_limit, valid_hours,
                                           image_model, now)) = 404
                      /\ update_password(password, image_limit, suggestion_limit,
                                         valid_hours, image_model)
                           => /\ passwords' = passwords
                              /\ usage_tracking' = usage_tracking]_vars

\* The state in which such calls are answered: the code has no stored
\* credential, a usage record built from it is still stored with a counter
\* above 0, and another credential is stored.
C27_Witness ==
    \E password \in ChangeInputs :
        /\ Stored(password) = NoDoc
        /\ \E key \in CredentialKeys(password) :
              /\ usage_tracking[key] # <<>>
              /\ "image_count" \in DOMAIN usage_tracking[key][1]
              /\ usage_tracking[key][1].image_count > 0
        /\ passwords # {}

\* C24: a call of validate_password leaves every stored usage record as it
\* was; the only write it can make is the insert of one record with both
\* counters 0 for the user and the code of the call, made when no record is
\* stored under the key of the call and the code addresses a stored, unexpired
\* credential; with an unknown or expired code it writes nothing.
C24_ValidateKeepsCounters ==
    [][\A password \in ClientInputs, user_guid \in ClientUsers, usage_type \in UsageTypes :
          call_validate_password(password, user_guid, usage_type)
             => LET key == validate_usage_key(user_guid, password)
                IN /\ \A k \in UsageKeys \ {key} : usage_tracking'[k] = usage_tracking[k]
                   /\ \/ usage_tracking'[key] = usage_tracking[key]
                      \/ /\ usage_tracking[key] = <<>>
                         /\ Len(usage_tracking'[key]) = 1
                         /\ usage_tracking'[key][1].image_count = 0
                         /\ usage_tracking'[key][1].suggestion_count = 0
                         /\ usage_tracking'[key][1].user_guid = user_guid
                         /\ lower(usage_tracking'[key][1].password) = lower(password)
                         /\ ~is_admin(password)
                         /\ find_password(passwords, lower(password), now) # NoDoc]_vars

\* An operation has passed validate_password with an ordinary code whose usage
\* record, found under the key of the call, holds a counter above 0.
C24_Witness ==
    /\ pending # NoDoc
    /\ IF pending = NoDoc THEN FALSE
       ELSE /\ ~is_admin(pending.password)
            /\ LET found == find_usage(usage_tracking,
                                       validate_usage_key(pending.user_guid,
                                                          pending.password))
               IN /\ found # NoDoc
                  /\ found[count_field(pending.usage_type)] > 0

(***************************************************************************)
(* Claims about the validity probe (SpecProbe)                             *)
(***************************************************************************)
\* C23: a call of POST /api/password/validate creates, modifies and deletes no
\* usage record and no credential, whatever code it is given.
C23_CheckReadOnly ==
    [][\A password \in PasswordInputs :
          validate_password_endpoint(password)
             => /\ passwords' = passwords
                /\ usage_tracking' = usage_tracking]_vars

\* The probe just answered for a code whose credential was created before the
\* call and had expired by then, while usage records and another credential
\* are stored.
C23_Witness ==
    /\ probe # NoDoc
    /\ probe.at = now
    /\ probe.response.valid = FALSE
    /\ StoredExpired(probe.password)
    /\ Stored(probe.password).created_at < probe.at
    /\ \E key \in UsageKeys : usage_tracking[key] # <<>>
    /\ \E d \in passwords : d.password # lower(probe.password)

(***************************************************************************)
(* Claims about the moderation gate (SpecScreen)                           *)
(***************************************************************************)
ScreenOutcomes == {"error", "malformed", "rejected", "approved"}

Live(guidelines_doc) ==
    IF guidelines_doc = NoDoc THEN DEFAULT_MODERATION_GUIDELINES
    ELSE guidelines_doc.guidelines

\* C29: after update_guidelines(g) with a text that is not blank the
\* guidelines in force are g, after reset_guidelines and when none was ever
\* stored they are the built-in default; and a moderate_content call during
\* which no write of the guidelines completed has read, and judges against,
\* the guidelines in force.
C29_LiveGuidelines ==
    [][/\ \A guidelines \in GuidelineInputs :
             (update_guidelines(guidelines) /\ strip(guidelines) # <<>>)
                => Live(moderation_guidelines') = guidelines
       /\ reset_guidelines => Live(moderation_guidelines') = DEFAULT_MODERATION_GUIDELINES
       /\ (req'.guidelines # <<>> /\ ~req'.guidelines_set)
             => req'.guidelines = Live(moderation_guidelines')]_vars

\* moderate_content judged a prompt against guidelines an administrator had
\* set, with no write of the guidelines since the call began, and the log
\* holds a document.
C29_Witness ==
    /\ req.moderation \in {"rejected", "approved"}
    /\ req.guidelines \in GuidelineInputs
    /\ ~req.guidelines_set
    /\ moderation_failures # <<>>

(***************************************************************************)
(* Claims about the cost ledger (SpecCost)                                 *)
(***************************************************************************)
\* The pricing entry the claim names: the model's, the default model's when
\* the model is not in the table.
PricingEntry(model) ==
    IF model \in DOMAIN GEMINI_PRICING THEN GEMINI_PRICING[model]
    ELSE GEMINI_PRICING[MODEL_FLASH]

\* A rate of that entry; a rate the entry does not list is the one the
\* program falls back on (0.039 per image, 0.15, 0.60 and 3.50 per million).
Rate(model, key) ==
    IF key \in DOMAIN PricingEntry(model) THEN PricingEntry(model)[key]
    ELSE CASE key = "per_image" -> 3900000
           [] key = "input_per_million" -> 15000000
           [] key = "output_per_million" -> 60000000
           [] key = "thinking_per_million" -> 350000000

\* C32: the cost stored in every telemetry record is images_generated times
\* the per-image rate plus, per million, the prompt, completion and thinking
\* tokens at the input, output and thinking rates of the model's pricing
\* entry (the default model's entry for an unrecognised model); two images
\* at 0.039 with no tokens cost 0.078.
C32_DerivedCost ==
    \A i \in 1..Len(token_usage) :
        LET d == token_usage[i]
        IN /\ d.cost_usd
                = d.images_generated * Rate(d.model, "per_image")
                  + (d.prompt_tokens * Rate(d.model, "input_per_million")
                     + d.completion_tokens * Rate(d.model, "output_per_million")
                     + d.thinking_tokens * Rate(d.model, "thinking_per_million"))
                    \div 1000000
           /\ (/\ d.model = MODEL_FLASH_IMAGE
               /\ d.images_generated = 2
               /\ d.prompt_tokens + d.completion_tokens + d.thinking_tokens = 0)
                 => d.cost_usd = 7800000

\* A record of a call on an unrecognised model with images and tokens of
\* every kind.
C32_Witness ==
    \E i \in 1..Len(token_usage) :
        /\ token_usage[i].model = MODEL_UNKNOWN
        /\ token_usage[i].images_generated = 2
        /\ token_usage[i].prompt_tokens > 0
        /\ token_usage[i].completion_tokens > 0
        /\ token_usage[i].thinking_tokens > 0

\* The sum of a field over the documents at the given positions.
RECURSIVE Total(_, _, _)
Total(tu, positions, field) ==
    IF positions = {} THEN 0
    ELSE LET i == CHOOSE i \in positions : TRUE
         IN tu[i][field] + Total(tu, positions \ {i}, field)

\* The positions of the documents of a model.
OfModel(tu, model) == {i \in 1..Len(tu) : tu[i].model = model}

SummedFields ==
    {"prompt_tokens", "completion_tokens", "thinking_tokens", "total_tokens",
     "images_generated", "cost_usd"}

\* C33: what GET /api/admin/token-usage aggregates by model has, for every
\* model with telemetry records, one group whose cost, token fields and
\* images are the sums over the records of that model and whose request
\* count is the number of those records, no other group, and the groups in
\* order of descending cost.
C33_AggregationByModel ==
    [][get_token_usage
         => LET by_model == report'.by_model
                n == Len(by_model)
            IN /\ {by_model[k]._id : k \in 1..n}
                     = {token_usage[i].model : i \in 1..Len(token_usage)}
               /\ \A k, l \in 1..n : by_model[k]._id = by_model[l]._id => k = l
               /\ \A k \in 1..n :
                     /\ \A field \in SummedFields :
                           by_model[k][field]
                             = Total(token_usage, OfModel(token_usage, by_model[k]._id),
                                     field)
                     /\ by_model[k].request_count
                          = Cardinality(OfModel(token_usage, by_model[k]._id))
               /\ \A k, l \in 1..n :
                     k < l => by_model[k].cost_usd >= by_model[l].cost_usd]_vars

\* A report of two groups, one of them over two records.
C33_Witness ==
    /\ report # NoDoc
    /\ Len(report.by_model) = 2
    /\ report.by_model[1].request_count = 2
    /\ report.by_model[1].cost_usd > report.by_model[2].cost_usd

\* The label the claim names for a credential argument: none when no code
\* (or the empty code) was given, the sentinel for the privileged code, the
\* lowercased code otherwise.
Label(password) ==
    IF password \in {{}, {<<>>}} THEN {}
    ELSE IF password = {ADMIN_PASSWORD} THEN {ADMIN_LABEL}
    ELSE {lower(p) : p \in password}

\* The step is a call of track_token_usage with this credential argument
\* that stored a record.
Recorded(password) ==
    /\ Len(token_usage') = Len(token_usage) + 1
    /\ LET d == token_usage'[Len(token_usage')]
       IN call_track_token_usage(d.operation_type, d.model, d.prompt_tokens,
                                 d.completion_tokens, d.thinking_tokens,
                                 d.total_tokens, d.images_generated, password, TRUE,
                                 MaxCalls)

\* C34: a call of track_token_usage stores the sentinel label when it was
\* made with the privileged code, the lowercased code when it was made with
\* another code, and no credential when none was given; a call with a second
\* spelling of the same non-privileged code, differing only in case, would
\* have stored the same record.
C34_CredentialNormalised ==
    [][\A password \in CostPasswords :
          Recorded(password)
             => /\ token_usage'[Len(token_usage')].password = Label(password)
                /\ \A other \in CostPasswords \ {{}, {ADMIN_PASSWORD}} :
                      (/\ password \notin {{}, {ADMIN_PASSWORD}}
                       /\ {lower(p) : p \in other} = {lower(p) : p \in password})
                         => Recorded(other)]_vars

\* A record stored under the lowercased spelling of a code.
C34_Witness ==
    \E i \in 1..Len(token_usage) : token_usage[i].password = {lower(PW_AB)}

(***************************************************************************)
(* Claims about the telemetry of requests (SpecLedger)                     *)
(***************************************************************************)
\* The request went on from the answer of a helper's provider call as the
\* answer says.
Continued(stage, outcome) ==
    CASE stage = "moderation" ->
            /\ req.moderation = outcome
            /\ req.is_appropriate = (outcome = "approved")
            /\ outcome # "approved"
                 => /\ req.pc = "done"
                    /\ req.response = Response(500, DETAIL_GENERATE_FAILED, "error")
      [] stage \in GenerationStages ->
            IF outcome = "image"
              THEN /\ req.cause # "provider_failure"
                   /\ req.pc = "write_file" \/ req.file_written
            ELSE /\ req.cause = "provider_failure"
                 /\ req.pc = "done"
      [] stage = "describe" ->
            /\ req.described = outcome
            /\ outcome = "text" => req.description = "text"
      [] OTHER -> TRUE

\* C35: a provider call whose track_token_usage failed to insert its record
\* leaves the request where the answer of the call takes it: the failure is
\* not raised into the helper, and a request with such a failure that is over
\* after a described image has answered 200.
C35_TelemetryFailureSwallowed ==
    /\ \A answer \in req.answers :
          answer[1] \in req.untracked => Continued(answer[1], answer[2])
    /\ (/\ req.untracked # {}
        /\ req.pc = "done"
        /\ <<"describe", "text">> \in req.answers)
          => /\ req.response = Response(200, "", "image")
             /\ req.increments = 1

\* A request is over with its image although recording the generation call
\* and the description call failed.
C35_Witness ==
    /\ req.pc = "done"
    /\ req.response.status = 200
    /\ {"gemini", "describe"} \subseteq req.untracked
    /\ <<"gemini", "image">> \in req.answers
    /\ req.description = "text"

\* C36: the provider calls of a request that returned a response have each
\* appended one telemetry record (stated for requests none of whose
\* recordings failed at the datastore).
C36_EveryAnswerRecorded ==
    req.untracked = {}
       => Len(token_usage) - req.ledger_start = Cardinality(req.answers)

\* Telemetry records are only ever appended.
C36_AppendOnly ==
    [][/\ Len(token_usage') >= Len(token_usage)
       /\ SubSeq(token_usage', 1, Len(token_usage)) = token_usage]_vars

\* The telemetry records the request in hand has appended.
OwnRecords == {token_usage[i] : i \in (req.ledger_start + 1)..Len(token_usage)}

\* C40: a telemetry record of a request, and the created-with label of the
\* image record it inserted, is the privileged label only when the request
\* was made with the privileged code.
C40_SentinelExclusive ==
    /\ \A d \in OwnRecords : d.password = {ADMIN_LABEL} => req.password = ADMIN_PASSWORD
    /\ req.created_with_password = {ADMIN_LABEL} => req.password = ADMIN_PASSWORD

(***************************************************************************)
(* Claims about usage records and credentials (SpecStore, SpecAdmin)       *)
(***************************************************************************)
\* C37: every usage record belongs to a stored credential: while a record
\* exists under the key of a user and a spelling of a code, the code is in
\* passwords_collection.
C37_NoOrphanUsage ==
    \A u \in Users, p \in PasswordInputs :
        usage_tracking[usage_key(u, p)] # <<>> => Stored(p) # NoDoc

\* The step re-created or patched the stored credential of the code.
Rewritten(password) ==
    /\ Stored(password) # NoDoc
    /\ find_one_password(passwords', lower(password)) # NoDoc
    /\ find_one_password(passwords', lower(password)) # Stored(password)

\* The usage record validate_password reads for the user and the spelling
\* holds a counter of the category that has reached the limit.
AtQuota(ut, user_guid, password, usage_type, limit) ==
    LET found == find_usage(ut, validate_usage_key(user_guid, password))
    IN /\ found # NoDoc
       /\ count_field(usage_type) \in DOMAIN found
       /\ found[count_field(usage_type)] >= limit

\* C38: a create_password or update_password that rewrites a stored
\* credential leaves every usage record as it was, and a user whose counter
\* had reached the quota, and has reached the new quota too, is still refused
\* by validate_password.
C38_RewriteKeepsConsumption ==
    [][\A password \in CreateInputs :
          Rewritten(password)
             => /\ usage_tracking' = usage_tracking
                /\ \A p \in OrdinaryInputs, u \in ClientUsers, usage_type \in UsageTypes :
                      (/\ lower(p) = lower(password)
                       /\ AtQuota(usage_tracking, u, p, usage_type,
                                  Stored(p)[limit_field(usage_type)])
                       /\ AtQuota(usage_tracking, u, p, usage_type,
                                  find_one_password(passwords', lower(p))
                                     [limit_field(usage_type)]))
                         => ~validate_result(passwords', usage_tracking', now', p, u,
                                             usage_type).is_valid]_vars

\* The credential was patched to a lower image quota after the user had used
\* up the quota it was created with, and the user is refused.
C38_Witness ==
    /\ Stored(PW_ab) # NoDoc
    /\ Stored(PW_ab).image_limit = 1
    /\ Stored(PW_ab).expires_at > now
    /\ AtQuota(usage_tracking, USER_u, PW_ab, "image", 2)
    /\ ~ValidateNow(PW_ab, USER_u, "image").is_valid

\* The fields of a usage record other than one counter.
Others(doc, field) == [f \in DOMAIN doc \ {field} |-> doc[f]]

\* C39: increment_usage for a user, a code and a category leaves every
\* credential, every usage record under another key and every other field of
\* the record under its own key as they were: the record of the key, created
\* when there was none, has the counter of the category one higher and
\* nothing else changed; with the privileged code nothing changes at all.
C39_IncrementIsolation ==
    [][call_increment_usage
         => LET key == increment_usage_key(pending.user_guid, pending.password)
                field == count_field(pending.usage_type)
                before == usage_tracking[key]
                after == usage_tracking'[key]
            IN /\ passwords' = passwords
               /\ is_admin(pending.password) => usage_tracking' = usage_tracking
               /\ ~is_admin(pending.password)
                    => /\ \A k \in UsageKeys \ {key} :
                             usage_tracking'[k] = usage_tracking[k]
                       /\ Len(after) = IF before = <<>> THEN 1 ELSE Len(before)
                       /\ \A i \in 2..Len(after) : after[i] = before[i]
                       /\ before = <<>> => Others(after[1], field) = [usage_key |-> key]
                       /\ before # <<>> => Others(after[1], field) = Others(before[1], field)
                       /\ after[1][field]
                            = IF before # <<>> /\ field \in DOMAIN before[1]
                                THEN before[1][field] + 1 ELSE 1]_vars

\* User u has consumed an image with the code "ab" while the same record
\* counts a suggestion and records of another user and of another credential
\* are stored.
C39_Witness ==
    /\ pending = NoDoc
    /\ usage_tracking[usage_key(USER_u, PW_ab)] # <<>>
    /\ usage_tracking[usage_key(USER_u, PW_ab)][1].image_count = 1
    /\ usage_tracking[usage_key(USER_u, PW_ab)][1].suggestion_count = 1
    /\ usage_tracking[usage_key(USER_v, PW_ab)] # <<>>
    /\ usage_tracking[usage_key(USER_u, lower(PW_Admin))] # <<>>
    /\ pairs[<<USER_u, PW_ab, "image">>] = 1

====
